---- MODULE Spec2Model ----
(***************************************************************************)
(* Lector: the article store (src/src/db.js) with its write queue.         *)
(*                                                                         *)
(* The store is three tables (feeds, articles, meta) behind a SQL          *)
(* connection.  Every mutating function of db.js wraps its body in         *)
(* withWriteLock, a chain of promises.  A body is a sequence of            *)
(* db.execute statements; each statement is one step of the model, so      *)
(* whatever the queue lets overlap is visible.                             *)
(*                                                                         *)
(* Strings that take part in id derivation are sequences of tokens, so     *)
(* that `${feedUrl}::${link || title}` is modelled as the concatenation    *)
(* it is.                                                                  *)
(***************************************************************************)
EXTENDS Integers, Sequences, FiniteSets, TLC

(***************************************************************************)
(* Bounds of the model.                                                    *)
(***************************************************************************)
\* number of calls of the functions of db.js on top of the initial store
MaxOps == 2
\* number of times the process is killed and started again
MaxRestarts == 2
\* number of reloadArticles invocations
MaxReloads == 2
\* number of addFeed / addSampleFeed invocations of the app
MaxSubs == 2
\* number of item or entry elements of a generated document
MaxInits == 2
MaxItems == 2

(***************************************************************************)
(* Program constants.                                                      *)
(***************************************************************************)
\* db.js:101 LIMIT 500, scaled to 2 so that a feed can exceed it
PruneLimit == 2

(***************************************************************************)
(* Input domains.                                                          *)
(***************************************************************************)
UrlA  == <<"a">>
UrlAB == <<"a", "::", "b">>
FeedUrls == {UrlA, UrlAB}
\* the feed name the calls of the model pass; the initial stores hold others
NewName == "n3"

\* entries as parseRSS returns them: {title, link, published, content, author}
E1 == [title |-> <<"t1">>, link |-> <<"c">>, published |-> "d2",
       content |-> "x1", author |-> "u1"]
\* the entry of E1 fetched again with every other field changed
E2 == [title |-> <<"t2">>, link |-> <<"c">>, published |-> "d1",
       content |-> "x2", author |-> "u2"]
\* no link (keyed by its title) and a date that does not parse
E3 == [title |-> <<"b", "::", "c">>, link |-> <<>>, published |-> "bad",
       content |-> "x1", author |-> ""]
\* no date at all
E4 == [title |-> <<"t1">>, link |-> <<"d">>, published |-> "",
       content |-> "x1", author |-> "u1"]
\* one more entry, dated before E1
E5 == [title |-> <<"t5">>, link |-> <<"e">>, published |-> "d1",
       content |-> "x5", author |-> ""]
Entries == {E1, E2, E3, E4, E5}

\* the item lists handed to upsertArticles: none, a known entry changed, the
\* same entry twice in one list, more new entries than the cap keeps
Batches == {<<>>, <<E2>>, <<E1, E2>>, <<E3, E4, E5>>}

(***************************************************************************)
(* Pure helpers of db.js.                                                  *)
(***************************************************************************)
\* item.link || item.title
LinkOrTitle(item) == IF item.link # <<>> THEN item.link ELSE item.title

\* `${feedUrl}::${item.link || item.title}`
ArticleId(feedUrl, item) == feedUrl \o <<"::">> \o LinkOrTitle(item)

\* new Date(s).getTime(): a number for the date strings that parse, else NaN
DateParses(s) == s \in {"d1", "d2"}
GetTime(s) == IF s = "d1" THEN 1 ELSE 2

\* item.published ? new Date(item.published).getTime() || 0 : 0
PublishedTs(published) ==
    IF published # "" /\ DateParses(published) /\ GetTime(published) # 0
    THEN GetTime(published) ELSE 0

Ids == {ArticleId(u, e) : u \in FeedUrls, e \in Entries}

\* the ids the flag mutations are called with, and the id lists of markAllRead
FlagIds == {ArticleId(UrlA, E1), ArticleId(UrlA, E3)}
IdLists == {{}, {ArticleId(UrlA, E3)}, {ArticleId(UrlA, E3), ArticleId(UrlAB, E4)}}

Min(a, b) == IF a <= b THEN a ELSE b

(***************************************************************************)
(* The SQL statements, as functions on tables.  A table is a set of rows.  *)
(***************************************************************************)
\* INSERT OR IGNORE INTO feeds (url, name, added_at)
InsertFeedPlain(feedRows, url, name, ts) ==
    feedRows \cup {[url |-> url, name |-> name, addedAt |-> ts]}
InsertFeedOrReplace(feedRows, url, name, ts) ==
    {f \in feedRows : f.url # url} \cup {[url |-> url, name |-> name, addedAt |-> ts]}
InsertFeedOrIgnore(feedRows, url, name, ts) ==
    IF \E f \in feedRows : f.url = url
    THEN feedRows
    ELSE feedRows \cup {[url |-> url, name |-> name, addedAt |-> ts]}

\* DELETE FROM feeds WHERE url = $1
DeleteAllFeeds(feedRows, url) == {}
DeleteFeedRow(feedRows, url) == {f \in feedRows : f.url # url}

\* schema: articles.feed_url REFERENCES feeds(url) ON DELETE CASCADE
CascadeDelete(artRows, feedRows) ==
    {r \in artRows : \E f \in feedRows : f.url = r.feedUrl}

\* schema: a row may be inserted only under a feed that exists
ForeignKeyOff(feedRows, feedUrl) == TRUE
ForeignKeyOk(feedRows, feedUrl) == \E f \in feedRows : f.url = feedUrl

\* the row the INSERT of upsertArticles writes when the id is new
NewArticle(id, feedUrl, feedName, item, now) ==
    [id |-> id, feedUrl |-> feedUrl, feedName |-> feedName,
     title |-> item.title, link |-> item.link, published |-> item.published,
     publishedTs |-> PublishedTs(item.published), content |-> item.content,
     author |-> item.author, isRead |-> FALSE, isStarred |-> FALSE,
     fetchedAt |-> now]

\* ON CONFLICT(id) DO UPDATE SET feed_name, title, link, published,
\* published_ts, content, author, fetched_at
UpdateArticleReplacing(old, feedName, item, now) ==
    NewArticle(old.id, old.feedUrl, feedName, item, now)
UpdateArticleKeepFetched(old, feedName, item, now) ==
    [old EXCEPT !.feedName = feedName, !.title = item.title, !.link = item.link,
                !.published = item.published,
                !.publishedTs = PublishedTs(item.published),
                !.content = item.content, !.author = item.author]
UpdateArticle(old, feedName, item, now) ==
    [old EXCEPT !.feedName = feedName, !.title = item.title, !.link = item.link,
                !.published = item.published,
                !.publishedTs = PublishedTs(item.published),
                !.content = item.content, !.author = item.author,
                !.fetchedAt = now]

\* INSERT INTO articles ... ON CONFLICT(id) DO UPDATE SET ...
UpsertRowPlainInsert(artRows, feedUrl, feedName, item, now) ==
    artRows \cup {NewArticle(ArticleId(feedUrl, item), feedUrl, feedName, item, now)}
UpsertRow(artRows, feedUrl, feedName, item, now) ==
    LET id == ArticleId(feedUrl, item)
        hit == {r \in artRows : r.id = id}
    IN  IF hit = {}
        THEN artRows \cup {NewArticle(id, feedUrl, feedName, item, now)}
        ELSE (artRows \ hit)
                 \cup {UpdateArticle(r, feedName, item, now) : r \in hit}

\* ORDER BY published_ts DESC, fetched_at DESC: x sorts strictly before y
SortsBeforeAsc(x, y) ==
    \/ x.publishedTs < y.publishedTs
    \/ x.publishedTs = y.publishedTs /\ x.fetchedAt < y.fetchedAt
SortsBefore(x, y) ==
    \/ x.publishedTs > y.publishedTs
    \/ x.publishedTs = y.publishedTs /\ x.fetchedAt > y.fetchedAt

\* SELECT id FROM articles WHERE is_starred = 0 AND feed_url = $1
\* ORDER BY ... LIMIT 500: the sets of rows the query may return (rows that
\* tie in the order come out in an order SQL leaves open)
PruneCandidates(artRows, feedUrl) ==
    {r \in artRows : ~r.isStarred /\ r.feedUrl = feedUrl}
KeptSets(artRows, feedUrl) ==
    LET cand == PruneCandidates(artRows, feedUrl)
        n == Min(Cardinality(cand), PruneLimit)
    IN  {K \in SUBSET cand :
            /\ Cardinality(K) = n
            /\ \A k \in K, d \in cand \ K : ~SortsBefore(d, k)}

\* DELETE FROM articles WHERE is_starred = 0 AND feed_url = $1
\*   AND id NOT IN (kept)
PruneDeleteAnyStar(artRows, feedUrl, kept) ==
    {r \in artRows :
        ~(r.feedUrl = feedUrl /\ r.id \notin {k.id : k \in kept})}
PruneDelete(artRows, feedUrl, kept) ==
    {r \in artRows :
        ~(~r.isStarred /\ r.feedUrl = feedUrl /\ r.id \notin {k.id : k \in kept})}

\* UPDATE articles SET is_read = 1 WHERE id = $1
SetReadEveryRow(artRows, ids) == {[r EXCEPT !.isRead = TRUE] : r \in artRows}
SetReadFirstOnly(artRows, ids) ==
    IF ids = {} THEN artRows
    ELSE LET one == CHOOSE i \in ids : TRUE
         IN  {IF r.id = one THEN [r EXCEPT !.isRead = TRUE] ELSE r : r \in artRows}
SetRead(artRows, ids) ==
    {IF r.id \in ids THEN [r EXCEPT !.isRead = TRUE] ELSE r : r \in artRows}
\* UPDATE articles SET is_read = CASE WHEN is_read = 1 THEN 0 ELSE 1 END
FlipRead(artRows, id) ==
    {IF r.id = id THEN [r EXCEPT !.isRead = ~r.isRead] ELSE r : r \in artRows}
\* UPDATE articles SET is_starred = CASE WHEN is_starred = 1 THEN 0 ELSE 1 END
FlipStarOn(artRows, id) ==
    {IF r.id = id THEN [r EXCEPT !.isStarred = TRUE] ELSE r : r \in artRows}
FlipStar(artRows, id) ==
    {IF r.id = id THEN [r EXCEPT !.isStarred = ~r.isStarred] ELSE r : r \in artRows}

\* INSERT OR IGNORE INTO articles (...), the legacy row a with its flags
InsertArticlePlain(artRows, a, isRead, isStarred, now) ==
    artRows \cup
         {[id |-> a.id, feedUrl |-> a.feedUrl, feedName |-> a.feedName,
           title |-> a.title, link |-> a.link, published |-> a.published,
           publishedTs |-> PublishedTs(a.published), content |-> a.content,
           author |-> a.author, isRead |-> isRead, isStarred |-> isStarred,
           fetchedAt |-> now]}
InsertArticleOrIgnore(artRows, a, isRead, isStarred, now) ==
    IF \E r \in artRows : r.id = a.id
    THEN artRows
    ELSE artRows \cup
         {[id |-> a.id, feedUrl |-> a.feedUrl, feedName |-> a.feedName,
           title |-> a.title, link |-> a.link, published |-> a.published,
           publishedTs |-> PublishedTs(a.published), content |-> a.content,
           author |-> a.author, isRead |-> isRead, isStarred |-> isStarred,
           fetchedAt |-> now]}

(***************************************************************************)
(* Legacy localStorage data (rss-feeds, rss-articles, rss-read,            *)
(* rss-starred), in the shape the previous version of the app wrote it.    *)
(***************************************************************************)
LegacyArticle(feedUrl, feedName, item) ==
    [id |-> ArticleId(feedUrl, item), feedUrl |-> feedUrl, feedName |-> feedName,
     title |-> item.title, link |-> item.link, published |-> item.published,
     content |-> item.content, author |-> item.author]

NoLegacy == [feeds |-> <<>>, articles |-> <<>>, read |-> {}, starred |-> {}]

\* the statements of the import body (db.js:151-181) in the order of the
\* code: one INSERT per legacy feed, one per legacy article, then the marker
\* (line 173), then the removal of the legacy keys (lines 175-180)
MarkerStep(legacy) == Len(legacy.feeds) + Len(legacy.articles) + 1
ClearStepNoMarker(legacy) == MarkerStep(legacy)
ClearStep(legacy) == MarkerStep(legacy) + 1

LegacyData ==
    [feeds |-> <<[url |-> UrlA, name |-> "n1", addedAt |-> 0]>>,
     articles |-> <<LegacyArticle(UrlA, "n1", E1), LegacyArticle(UrlA, "n1", E4)>>,
     read |-> {ArticleId(UrlA, E1)},
     starred |-> {ArticleId(UrlA, E4)}]

(***************************************************************************)
(* State.                                                                  *)
(***************************************************************************)
VARIABLES
    feeds,          \* table feeds: rows [url, name, addedAt]
    articles,       \* table articles: rows keyed by id
    meta,           \* meta.migrated_from_localstorage = '1'
    localStorage,   \* the four legacy keys of localStorage
    writeLock,      \* db.js:6 the promise new writes chain on (0: Promise.resolve())
    queue,          \* write operations submitted and not settled, oldest first
    promise,        \* promise[k]: state of the promise withWriteLock returned for write k
    body,           \* body[k]: how the body fn() of write k ended ("none": it has not)
    clock,          \* Date.now()
    calls,          \* number of calls of the exported functions so far
    impSel,         \* importFromLocalStorageIfNeeded between its SELECT and its continuation
    done,           \* the write that settled last, while the store is as it left it
    lastList,       \* what the last listArticles call returned, and during which write
    restarts,       \* number of times the process was killed and started again
    feedList,       \* the React state `feeds` of RSSReader
    refreshing,     \* the React state `refreshing` of RSSReader
    refresh,        \* the refreshAllFeeds invocation in progress
    articleList,    \* the React state `articles` of RSSReader
    loadSeq,        \* the ref loadSeq.current of RSSReader
    reloads,        \* the reloadArticles invocations, in the order they were made
    error,          \* the React state `error` of RSSReader
    loading,        \* the React state `loading` of RSSReader
    subs,           \* the addFeed / addSampleFeed invocations, in the order made
    hydrated,       \* the React state `hydrated` of RSSReader
    boot,           \* the hydration effect of RSSReader
    db,             \* db.js:3 the handle of the database (0: null)
    loads,          \* number of Database.load calls made so far
    inits,          \* the initDb invocations, in the order they were made
    clicks,         \* the flag handler invocations of RSSReader, in the order made
    marked,         \* ids marked read and not toggled or removed with their feed since
    doc,            \* the document handed to parseRSS
    parsed          \* <<what parseRSS returned for it>> (<<>>: not called yet)

vars == <<feeds, articles, meta, localStorage, writeLock, queue, promise, body,
          clock, calls, impSel, done, lastList, restarts, feedList, refreshing,
          refresh, articleList, loadSeq, reloads, error, loading, subs, hydrated,
          boot, db, loads, inits, clicks, marked, doc, parsed>>

\* the state outside the write path of db.js: the app, and all of it
aux == <<db, loads, inits, clicks, marked, doc, parsed>>
ui == <<articleList, loadSeq, reloads, error, loading, subs, hydrated, boot>>
app == <<feedList, refreshing, refresh, ui>>
rest == <<lastList, restarts, aux, feedList, refreshing, refresh, ui>>

store == <<feeds, articles, meta, localStorage>>

NoSnapshot == [feeds |-> {}, articles |-> {}]
Snapshot == [feeds |-> feeds, articles |-> articles]

\* a write operation: the closure handed to withWriteLock with what it captured
Op(kind, url, name, items, aid, ids, legacy) ==
    [kind |-> kind, url |-> url, name |-> name, items |-> items, aid |-> aid,
     ids |-> ids, legacy |-> legacy,
     id |-> 0, pred |-> 0, st |-> "queued", pc |-> 0, now |-> 0,
     pre |-> NoSnapshot, mid |-> {}, again |-> FALSE, listed |-> "no",
     outcome |-> "none"]

NoOp == Op("none", <<>>, "", <<>>, <<>>, {}, NoLegacy)

\* no listArticles call has returned yet.  Of a call that has: its arguments
\* and result, the write that was running (during), the write that had settled
\* last (after), the number of writes submitted so far (stamp), and whether no
\* write was queued or running (quiet)
NoList == [feedUrl |-> <<>>, filter |-> "all", rows |-> <<>>, during |-> 0,
           after |-> 0, stamp |-> 0, quiet |-> TRUE]

\* no refreshAllFeeds invocation is in progress
NoRefresh == [pc |-> "idle", list |-> <<>>, fetch |-> <<>>, k |-> 0, op |-> 0,
              upserted |-> {}, pre |-> {}, rl |-> 0, conn |-> {}]

\* the hydration effect (part_000:114-129) has not run; it has run to its end
\* no document
NoDoc == [tag |-> "none", rel |-> "", href |-> <<>>, text |-> <<>>, kids |-> <<>>]

NoBoot == [pc |-> "start", op |-> 0]
Booted == [pc |-> "ready", op |-> 0]

\* a fetch that has not settled, and what fetchFeed may settle with: a
\* rejection (transport error, timeout, HTTP status) or parseRSS's
\* {feedTitle, items}
Pending == [status |-> "pending", feedTitle |-> "", items |-> <<>>, error |-> <<>>]
\* no connection, connect timeout, transport error: the promise of fetch rejects
NoAnswer == [status |-> "rejected", feedTitle |-> "", items |-> <<>>,
             error |-> <<"fetch">>]
FetchResults ==
    {NoAnswer}
        \cup {[status |-> "fulfilled", feedTitle |-> "ft", items |-> b, error |-> <<>>] :
                  b \in Batches}

(***************************************************************************)
(* Initial stores.  Each is built with the statements above from the empty *)
(* database, so each is a store the program reaches.                       *)
(***************************************************************************)
\* feed a fetched at time 1 (E1, E3), E1 then read and starred, E4 fetched at
\* time 2; feed a::b fetched at time 2 (E4)
UsedArticles ==
    LET s1 == UpsertRow(UpsertRow({}, UrlA, "n1", E1, 1), UrlA, "n1", E3, 1)
        s2 == FlipStar(SetRead(s1, {ArticleId(UrlA, E1)}), ArticleId(UrlA, E1))
        s3 == UpsertRow(s2, UrlA, "n1", E4, 2)
    IN  UpsertRow(s3, UrlAB, "n2", E4, 2)

UsedFeeds ==
    InsertFeedOrIgnore(InsertFeedOrIgnore({}, UrlA, "n1", 0), UrlAB, "n2", 0)

InitStores ==
    { \* first start after the upgrade, legacy data present
      [feeds |-> {}, articles |-> {}, meta |-> FALSE, localStorage |-> LegacyData,
       clock |-> 0],
      \* first start of a fresh install
      [feeds |-> {}, articles |-> {}, meta |-> FALSE, localStorage |-> NoLegacy,
       clock |-> 0],
      \* a store in use
      [feeds |-> UsedFeeds, articles |-> UsedArticles, meta |-> TRUE,
       localStorage |-> NoLegacy, clock |-> 2] }

\* the database has been opened (part_000:118 comes before any other call of
\* db.js), no flag handler has been called, no document parsed
InitAux ==
    /\ db = 1
    /\ loads = 1
    /\ inits = <<>>
    /\ clicks = <<>>
    /\ marked = {}
    /\ doc = NoDoc
    /\ parsed = <<>>

InitDb ==
    /\ \E s \in InitStores :
        /\ feeds = s.feeds
        /\ articles = s.articles
        /\ meta = s.meta
        /\ localStorage = s.localStorage
        /\ clock = s.clock
    /\ writeLock = 0
    /\ queue = <<>>
    /\ promise = <<>>
    /\ body = <<>>
    /\ calls = 0
    /\ impSel = "idle"
    /\ done = NoOp
    /\ lastList = NoList
    /\ restarts = 0
    /\ InitAux

\* part_000:96-105: the state of RSSReader when it is mounted
InitUi ==
    /\ articleList = <<>>
    /\ loadSeq = 0
    /\ reloads = <<>>
    /\ error = ""
    /\ loading = FALSE
    /\ subs = <<>>
    /\ hydrated = FALSE
    /\ boot = NoBoot

Init ==
    /\ InitDb
    /\ feedList = <<>>
    /\ refreshing = FALSE
    /\ refresh = NoRefresh
    /\ InitUi

(***************************************************************************)
(* withWriteLock (db.js:5-11).                                             *)
(***************************************************************************)
\* line 8: writeLock.then(() => fn()) -- the promise the new body waits for
ChainedOnResolved(lock) == 0
ChainedOn(lock) == lock

\* line 9: writeLock = next.catch(() => {}) -- the promise later writes wait for
NextLockStale(lock, k) == lock
NextLock(lock, k) == k

\* line 9: next.catch(() => {}) is fulfilled once next has settled, either way
LockStateNoCatch(p) == p
LockState(p) == IF p = "pending" THEN "pending" ELSE "fulfilled"

\* line 8: .catch((e) => { throw e; }) -- what the caller's promise becomes
\* when the body has ended
CallerSeesSwallowed(out) == "fulfilled"
CallerSees(out) == IF out = "ok" THEN "fulfilled" ELSE "rejected"

\* state of the promise write op waits for
PredState(op) == IF op.pred = 0 THEN "fulfilled" ELSE LockState(promise[op.pred])

\* lines 8-10: submit the body op
withWriteLock(op) ==
    LET k == Len(promise) + 1
    IN  /\ queue' = Append(queue, [op EXCEPT !.id = k, !.pred = ChainedOn(writeLock)])
        /\ writeLock' = NextLock(writeLock, k)
        /\ promise' = Append(promise, "pending")
        /\ body' = Append(body, "none")

Without(q, i) == SubSeq(q, 1, i - 1) \o SubSeq(q, i + 1, Len(q))

\* the body of queue[i] ends with out ("ok", "err"); its promise settles
Settle(i, out, mid) ==
    LET op == queue[i]
    IN  /\ queue' = Without(queue, i)
        /\ promise' = [promise EXCEPT ![op.id] = CallerSees(out)]
        /\ body' = [body EXCEPT ![op.id] = out]
        /\ done' = [op EXCEPT !.outcome = out, !.mid = mid]

Running(i, kind) ==
    /\ i \in 1..Len(queue)
    /\ queue[i].st = "running"
    /\ queue[i].kind = kind

ReadsClock(kind) == kind \in {"upsertArticles", "import"}

\* op is the upsertArticles call that last completed, made once more: the same
\* feed, feed name and items, with no statement on the store in between
SameUpsertAgain(op, last) ==
    /\ op.kind = "upsertArticles"
    /\ last.kind = "upsertArticles" /\ last.outcome = "ok"
    /\ last.url = op.url /\ last.name = op.name /\ last.items = op.items

\* line 8: the awaited promise has settled; fn() is called if it was fulfilled,
\* and is skipped (the rejection passes through) if it was rejected
Begin(i) ==
    /\ i \in 1..Len(queue)
    /\ queue[i].st = "queued"
    /\ PredState(queue[i]) # "pending"
    /\ IF PredState(queue[i]) = "fulfilled"
       THEN /\ \E t \in (IF ReadsClock(queue[i].kind)
                         THEN {clock, clock + 1} ELSE {clock}) :
                 /\ clock' = t
                 /\ queue' = [queue EXCEPT ![i] =
                        [queue[i] EXCEPT
                            !.st = "running", !.pc = 1, !.pre = Snapshot,
                            !.again = SameUpsertAgain(queue[i], done),
                            !.now = IF ReadsClock(queue[i].kind) THEN t ELSE @]]
            /\ UNCHANGED <<store, writeLock, promise, body, calls, impSel, done>>
       ELSE /\ queue' = Without(queue, i)
            /\ promise' = [promise EXCEPT ![queue[i].id] = "rejected"]
            /\ UNCHANGED <<store, writeLock, body, clock, calls, impSel, done>>

\* a db.execute of a running body fails (disk, I/O): the body throws there
StoreError(i) ==
    /\ i \in 1..Len(queue)
    /\ queue[i].st = "running"
    /\ ~(queue[i].kind = "import" /\ queue[i].pc = ClearStep(queue[i].legacy))
    /\ Settle(i, "err", articles)
    /\ UNCHANGED <<store, writeLock, clock, calls, impSel>>

Call == calls < MaxOps /\ calls' = calls + 1

(***************************************************************************)
(* initDb (db.js:13-17).  db is 0 for null, else the handle it holds; the  *)
(* k-th call of Database.load returns the handle k.                        *)
(***************************************************************************)
\* line 14: if (db) return db; line 15, up to the await: Database.load is
\* called.  Of each invocation: where it is, the handle its load returns, and
\* what it returned.
InitDbCall ==
    /\ Len(inits) < MaxInits
    /\ IF db # 0
       THEN /\ inits' = Append(inits, [pc |-> "done", h |-> 0, ret |-> db])
            /\ UNCHANGED loads
       ELSE /\ loads' = loads + 1
            /\ inits' = Append(inits, [pc |-> "load", h |-> loads + 1, ret |-> 0])
    /\ UNCHANGED <<store, writeLock, queue, promise, body, clock, calls, impSel,
                   done, lastList, restarts, app, db, clicks, marked, doc, parsed>>

\* lines 15-16: the load has returned; db = <handle>; return db
InitDbLoaded(j) ==
    /\ j \in 1..Len(inits)
    /\ inits[j].pc = "load"
    /\ db' = inits[j].h
    /\ inits' = [inits EXCEPT ![j].pc = "done", ![j].ret = inits[j].h]
    /\ UNCHANGED <<store, writeLock, queue, promise, body, clock, calls, impSel,
                   done, lastList, restarts, app, loads, clicks, marked, doc, parsed>>

\* every other function of db.js uses db: db.select and db.execute throw a
\* TypeError while db is null
Opened == db # 0

(***************************************************************************)
(* addFeed (db.js:24-29).                                                  *)
(***************************************************************************)
addFeed(url, name) ==
    /\ Call
    /\ withWriteLock([Op("addFeed", url, name, <<>>, <<>>, {}, NoLegacy)
                          EXCEPT !.now = clock])
    /\ UNCHANGED <<store, clock, impSel, done>>

ExecAddFeed(i) ==
    /\ Running(i, "addFeed")
    /\ feeds' = InsertFeedOrIgnore(feeds, queue[i].url, queue[i].name, queue[i].now)
    /\ Settle(i, "ok", articles)
    /\ UNCHANGED <<articles, meta, localStorage, writeLock, clock, calls, impSel>>

(***************************************************************************)
(* removeFeed (db.js:31-35).                                               *)
(***************************************************************************)
removeFeed(url) ==
    /\ Call
    /\ withWriteLock(Op("removeFeed", url, "", <<>>, <<>>, {}, NoLegacy))
    /\ UNCHANGED <<store, clock, impSel, done>>

ExecRemoveFeed(i) ==
    /\ Running(i, "removeFeed")
    /\ feeds' = DeleteFeedRow(feeds, queue[i].url)
    /\ articles' = CascadeDelete(articles, feeds')
    /\ Settle(i, "ok", articles)
    /\ UNCHANGED <<meta, localStorage, writeLock, clock, calls, impSel>>

(***************************************************************************)
(* upsertArticles (db.js:77-106).                                          *)
(***************************************************************************)
upsertArticles(feedUrl, feedName, items) ==
    /\ Call
    /\ withWriteLock(Op("upsertArticles", feedUrl, feedName, items, <<>>, {}, NoLegacy))
    /\ UNCHANGED <<store, clock, impSel, done>>

\* lines 80-91: one turn of the loop.  The INSERT of a new row is refused when
\* its feed does not exist; an existing id is updated in place.
ExecUpsertItem(i) ==
    /\ Running(i, "upsertArticles")
    /\ queue[i].pc <= Len(queue[i].items)
    /\ LET op == queue[i]
           item == op.items[op.pc]
           isNew == \A r \in articles : r.id # ArticleId(op.url, item)
       IN  IF isNew /\ ~ForeignKeyOk(feeds, op.url)
           THEN /\ Settle(i, "err", articles)
                /\ UNCHANGED articles
           ELSE /\ articles' = UpsertRow(articles, op.url, op.name, item, op.now)
                /\ queue' = [queue EXCEPT ![i].pc = @ + 1]
                /\ done' = NoOp
                /\ UNCHANGED <<promise, body>>
    /\ UNCHANGED <<feeds, meta, localStorage, writeLock, clock, calls, impSel>>

\* lines 93-104: the prune
ExecPrune(i) ==
    /\ Running(i, "upsertArticles")
    /\ queue[i].pc = Len(queue[i].items) + 1
    /\ \E kept \in KeptSets(articles, queue[i].url) :
           articles' = PruneDelete(articles, queue[i].url, kept)
    /\ Settle(i, "ok", articles)
    /\ UNCHANGED <<feeds, meta, localStorage, writeLock, clock, calls, impSel>>

(***************************************************************************)
(* markRead, toggleRead, toggleStar, markAllRead (db.js:108-132).          *)
(***************************************************************************)
markRead(articleId) ==
    /\ Call
    /\ withWriteLock(Op("markRead", <<>>, "", <<>>, articleId, {}, NoLegacy))
    /\ UNCHANGED <<store, clock, impSel, done>>

ExecMarkRead(i) ==
    /\ Running(i, "markRead")
    /\ articles' = SetRead(articles, {queue[i].aid})
    /\ Settle(i, "ok", articles)
    /\ UNCHANGED <<feeds, meta, localStorage, writeLock, clock, calls, impSel>>

toggleRead(articleId) ==
    /\ Call
    /\ withWriteLock(Op("toggleRead", <<>>, "", <<>>, articleId, {}, NoLegacy))
    /\ UNCHANGED <<store, clock, impSel, done>>

ExecToggleRead(i) ==
    /\ Running(i, "toggleRead")
    /\ articles' = FlipRead(articles, queue[i].aid)
    /\ Settle(i, "ok", articles)
    /\ UNCHANGED <<feeds, meta, localStorage, writeLock, clock, calls, impSel>>

toggleStar(articleId) ==
    /\ Call
    /\ withWriteLock(Op("toggleStar", <<>>, "", <<>>, articleId, {}, NoLegacy))
    /\ UNCHANGED <<store, clock, impSel, done>>

ExecToggleStar(i) ==
    /\ Running(i, "toggleStar")
    /\ articles' = FlipStar(articles, queue[i].aid)
    /\ Settle(i, "ok", articles)
    /\ UNCHANGED <<feeds, meta, localStorage, writeLock, clock, calls, impSel>>

\* line 127: an empty list returns before the queue
markAllRead(articleIds) ==
    /\ Call
    /\ IF articleIds = {}
       THEN UNCHANGED <<queue, writeLock, promise, body>>
       ELSE withWriteLock(Op("markAllRead", <<>>, "", <<>>, <<>>, articleIds, NoLegacy))
    /\ UNCHANGED <<store, clock, impSel, done>>

ExecMarkAllRead(i) ==
    /\ Running(i, "markAllRead")
    /\ articles' = SetRead(articles, queue[i].ids)
    /\ Settle(i, "ok", articles)
    /\ UNCHANGED <<feeds, meta, localStorage, writeLock, clock, calls, impSel>>

(***************************************************************************)
(* importFromLocalStorageIfNeeded (db.js:134-182).                         *)
(***************************************************************************)
\* line 135: the SELECT of the marker
SelectMarker ==
    /\ impSel = "idle"
    /\ impSel' = IF meta THEN "1" ELSE "0"
    /\ UNCHANGED <<store, writeLock, queue, promise, body, clock, done>>

ImportSelect == Call /\ SelectMarker

\* lines 143-144
HasData(legacy) == Len(legacy.feeds) > 0 \/ Len(legacy.articles) > 0

\* line 136: rows[0]?.value === "1"
MarkerSeenNever(sel) == FALSE
MarkerSeen(sel) == sel = "1"

\* lines 136-151: return on the marker, else read localStorage and queue either
\* the marker alone or the whole import
ImportContinue ==
    /\ impSel # "idle"
    /\ impSel' = "idle"
    /\ IF MarkerSeen(impSel)
       THEN UNCHANGED <<queue, writeLock, promise, body>>
       ELSE IF ~HasData(localStorage)
            THEN withWriteLock(Op("importMarker", <<>>, "", <<>>, <<>>, {}, NoLegacy))
            ELSE withWriteLock(Op("import", <<>>, "", <<>>, <<>>, {}, localStorage))
    /\ UNCHANGED <<store, clock, calls, done>>

\* lines 145-147
ExecImportMarkerOnly(i) ==
    /\ Running(i, "importMarker")
    /\ meta' = TRUE
    /\ Settle(i, "ok", articles)
    /\ UNCHANGED <<feeds, articles, localStorage, writeLock, clock, calls, impSel>>

\* lines 152-157: one legacy feed
ExecImportFeed(i) ==
    /\ Running(i, "import")
    /\ queue[i].pc <= Len(queue[i].legacy.feeds)
    /\ LET f == queue[i].legacy.feeds[queue[i].pc]
       IN  feeds' = InsertFeedOrIgnore(feeds, f.url, f.name, f.addedAt)
    /\ queue' = [queue EXCEPT ![i].pc = @ + 1]
    /\ done' = NoOp
    /\ UNCHANGED <<articles, meta, localStorage, writeLock, promise, body, clock,
                   calls, impSel>>

\* lines 159-171: one legacy article; like every INSERT of a new row it is
\* refused when its feed does not exist
ExecImportArticle(i) ==
    /\ Running(i, "import")
    /\ queue[i].pc > Len(queue[i].legacy.feeds)
    /\ queue[i].pc <= Len(queue[i].legacy.feeds) + Len(queue[i].legacy.articles)
    /\ LET op == queue[i]
           a == op.legacy.articles[op.pc - Len(op.legacy.feeds)]
           isNew == \A r \in articles : r.id # a.id
       IN  IF isNew /\ ~ForeignKeyOk(feeds, a.feedUrl)
           THEN /\ Settle(i, "err", articles)
                /\ UNCHANGED articles
           ELSE /\ articles' = InsertArticleOrIgnore(articles, a,
                                   a.id \in op.legacy.read, a.id \in op.legacy.starred,
                                   op.now)
                /\ queue' = [queue EXCEPT ![i].pc = @ + 1]
                /\ done' = NoOp
                /\ UNCHANGED <<promise, body>>
    /\ UNCHANGED <<feeds, meta, localStorage, writeLock, clock, calls, impSel>>

\* line 173: the marker
ExecImportMarker(i) ==
    /\ Running(i, "import")
    /\ queue[i].pc = MarkerStep(queue[i].legacy)
    /\ meta' = TRUE
    /\ queue' = [queue EXCEPT ![i].pc = @ + 1]
    /\ done' = NoOp
    /\ UNCHANGED <<feeds, articles, localStorage, writeLock, promise, body, clock,
                   calls, impSel>>

\* lines 175-180: the legacy keys are removed
ExecImportClear(i) ==
    /\ Running(i, "import")
    /\ queue[i].pc = ClearStep(queue[i].legacy)
    /\ localStorage' = NoLegacy
    /\ Settle(i, "ok", articles)
    /\ UNCHANGED <<feeds, articles, meta, writeLock, clock, calls, impSel>>

(***************************************************************************)
(* The process is killed and started again.  The module state of db.js     *)
(* (lines 3 and 6) and the state of the app are built anew; the database   *)
(* file, with every statement that had returned, and localStorage stay.    *)
(* The database is opened again before anything else (part_000:118).       *)
(***************************************************************************)
Restart ==
    /\ restarts < MaxRestarts
    /\ restarts' = restarts + 1
    /\ writeLock' = 0
    /\ queue' = <<>>
    /\ promise' = <<>>
    /\ body' = <<>>
    /\ calls' = 0
    /\ impSel' = "idle"
    /\ done' = NoOp
    /\ lastList' = NoList
    /\ feedList' = <<>>
    /\ refreshing' = FALSE
    /\ refresh' = NoRefresh
    /\ articleList' = <<>>
    /\ loadSeq' = 0
    /\ reloads' = <<>>
    /\ error' = ""
    /\ loading' = FALSE
    /\ subs' = <<>>
    /\ hydrated' = FALSE
    /\ boot' = NoBoot
    /\ inits' = <<>>
    /\ clicks' = <<>>
    /\ UNCHANGED <<store, clock, db, loads, marked, doc, parsed>>

(***************************************************************************)
(* listArticles (db.js:37-75): one SELECT, outside the write queue.        *)
(***************************************************************************)
\* lines 62-75: the columns published_ts and fetched_at are not passed on
rowToArticle(r) ==
    [id |-> r.id, feedUrl |-> r.feedUrl, feedName |-> r.feedName,
     title |-> r.title, link |-> r.link, published |-> r.published,
     content |-> r.content, author |-> r.author,
     is_read |-> r.isRead, is_starred |-> r.isStarred]

\* lines 43-56: WHERE feed_url = $1 (if a feedUrl is given) AND is_read = 0
\* (filter "unread") or is_starred = 1 (filter "starred")
SelectedAnyRow(artRows, feedUrl, filter) == artRows
Selected(artRows, feedUrl, filter) ==
    {r \in artRows :
        /\ feedUrl # <<>> => r.feedUrl = feedUrl
        /\ filter = "unread" => ~r.isRead
        /\ filter = "starred" => r.isStarred}

\* line 56: ORDER BY published_ts DESC, fetched_at DESC -- the sequences the
\* SELECT may return (rows that tie come in any order)
RECURSIVE Ordered(_)
Ordered(rows) ==
    IF rows = {} THEN {<<>>}
    ELSE UNION {{<<x>> \o t : t \in Ordered(rows \ {x})} :
                    x \in {y \in rows : \A z \in rows : ~SortsBefore(z, y)}}

\* lines 58-59
ListArticles(artRows, feedUrl, filter) ==
    {[k \in 1..Len(sq) |-> rowToArticle(sq[k])] :
        sq \in Ordered(Selected(artRows, feedUrl, filter))}

\* the SELECT runs against the store as it is at that moment, whether or not a
\* write body is between two of its statements
listArticles(feedUrl, filter) ==
    /\ \E rows \in ListArticles(articles, feedUrl, filter) :
          lastList' = [feedUrl |-> feedUrl, filter |-> filter, rows |-> rows,
                       during |-> IF \E i \in 1..Len(queue) : queue[i].st = "running"
                                  THEN (CHOOSE op \in {queue[i] : i \in 1..Len(queue)} :
                                            op.st = "running").id
                                  ELSE 0,
                       after |-> done.id, stamp |-> Len(promise),
                       quiet |-> queue = <<>>]
    /\ UNCHANGED <<store, writeLock, queue, promise, body, clock, impSel, done>>

\* markAllRead called with the ids of the list the last listArticles call with
\* the unread filter returned.  The operation notes whether a write was
\* submitted since that call ("no": one was), and if none was, whether a write
\* was queued or running at that call ("busy") or not ("quiet").
markListedRead ==
    /\ lastList.filter = "unread"
    /\ lastList.rows # <<>>
    /\ Call
    /\ withWriteLock(
          [Op("markAllRead", lastList.feedUrl, "", <<>>, <<>>,
              {lastList.rows[k].id : k \in 1..Len(lastList.rows)}, NoLegacy)
             EXCEPT !.listed = IF lastList.stamp # Len(promise) THEN "no"
                               ELSE IF lastList.quiet THEN "quiet" ELSE "busy"])
    /\ UNCHANGED <<store, clock, impSel, done>>

(***************************************************************************)
(* listFeeds (db.js:19-22).                                                *)
(***************************************************************************)
\* ORDER BY added_at ASC: the sequences the SELECT may return
RECURSIVE FeedsOrdered(_)
FeedsOrdered(rows) ==
    IF rows = {} THEN {<<>>}
    ELSE UNION {{<<x>> \o t : t \in FeedsOrdered(rows \ {x})} :
                    x \in {y \in rows : \A z \in rows : y.addedAt <= z.addedAt}}

ListFeeds(feedRows) == FeedsOrdered(feedRows)

(***************************************************************************)
(* The hydration effect (part_000:114-129).                                *)
(***************************************************************************)
\* line 235: until hydrated only the loading screen is rendered, no control of
\* the app can be used; line 147: the automatic refresh waits for hydrated
UiShownAlways(h) == TRUE
UiShown(h) == h

\* line 118: await initDb() -- opens the database, writes nothing
BootInitDb ==
    /\ boot.pc = "start"
    /\ boot' = [boot EXCEPT !.pc = "init"]
    /\ UNCHANGED <<store, writeLock, queue, promise, body, clock, calls, impSel,
                   done, lastList, restarts, aux, feedList, refreshing, refresh,
                   articleList, loadSeq, reloads, error, loading, subs, hydrated>>

\* line 119: importFromLocalStorageIfNeeded() is called; its SELECT runs
BootImportCall ==
    /\ boot.pc = "init"
    /\ SelectMarker
    /\ boot' = [boot EXCEPT !.pc = "import"]
    /\ UNCHANGED <<calls, lastList, restarts, aux, feedList, refreshing, refresh,
                   articleList, loadSeq, reloads, error, loading, subs, hydrated>>

\* db.js:136-151: the continuation of the import; it returns on the marker,
\* else the effect awaits the write it has queued
BootImportContinue ==
    /\ boot.pc = "import"
    /\ ImportContinue
    /\ boot' = IF MarkerSeen(impSel)
               THEN [boot EXCEPT !.pc = "imported"]
               ELSE [boot EXCEPT !.pc = "importing", !.op = Len(promise) + 1]
    /\ UNCHANGED <<lastList, restarts, aux, feedList, refreshing, refresh,
                   articleList, loadSeq, reloads, error, loading, subs, hydrated>>

\* line 119: the awaited import has settled; its rejection ends the effect
BootImported ==
    /\ boot.pc = "importing"
    /\ promise[boot.op] # "pending"
    /\ boot' = [boot EXCEPT !.pc = IF promise[boot.op] = "fulfilled"
                                   THEN "imported" ELSE "failed"]
    /\ UNCHANGED <<store, writeLock, queue, promise, body, clock, calls, impSel,
                   done, lastList, restarts, aux, feedList, refreshing, refresh,
                   articleList, loadSeq, reloads, error, loading, subs, hydrated>>

\* lines 120-122: listFeeds() and setFeeds(dbFeeds)
BootListFeeds ==
    /\ boot.pc = "imported"
    /\ feedList' \in ListFeeds(feeds)
    /\ boot' = [boot EXCEPT !.pc = "articles"]
    /\ UNCHANGED <<store, writeLock, queue, promise, body, clock, calls, impSel,
                   done, lastList, restarts, aux, refreshing, refresh,
                   articleList, loadSeq, reloads, error, loading, subs, hydrated>>

\* lines 123-126: listArticles(), setArticles(dbArticles), setHydrated(true)
BootListArticles ==
    /\ boot.pc = "articles"
    /\ articleList' \in ListArticles(articles, <<>>, "all")
    /\ hydrated' = TRUE
    /\ boot' = [boot EXCEPT !.pc = "ready"]
    /\ UNCHANGED <<store, writeLock, queue, promise, body, clock, calls, impSel,
                   done, lastList, restarts, aux, feedList, refreshing, refresh,
                   loadSeq, reloads, error, loading, subs>>

(***************************************************************************)
(* reloadArticles (part_000:107-112).                                      *)
(***************************************************************************)
\* line 110: the result is dropped if a later reload has taken a number since
IsCurrentAlways(seq, cur) == TRUE
IsCurrent(seq, cur) == seq = cur

\* line 108: const seq = ++loadSeq.current, and listArticles() is called.  Of
\* each invocation: its seq, where it is, what its SELECT returned, whether it
\* called setArticles, and how many reloads had been started after it when it
\* returned.
ReloadCall ==
    /\ Len(reloads) < MaxReloads
    /\ loadSeq' = loadSeq + 1
    /\ reloads' = Append(reloads, [seq |-> loadSeq + 1, st |-> "select",
                                   rows |-> <<>>, applied |-> FALSE, later |-> 0])

\* reloadArticles is called by a handler
reloadArticles ==
    /\ ReloadCall
    /\ UNCHANGED <<store, writeLock, queue, promise, body, clock, calls, impSel,
                   done, lastList, restarts, aux, feedList, refreshing, refresh,
                   articleList, error, loading, subs, hydrated, boot>>

\* line 109: the SELECT of listArticles() runs
ReloadSelect(j) ==
    /\ j \in 1..Len(reloads)
    /\ reloads[j].st = "select"
    /\ \E rows \in ListArticles(articles, <<>>, "all") :
          reloads' = [reloads EXCEPT ![j].st = "result", ![j].rows = rows]
    /\ UNCHANGED <<store, writeLock, queue, promise, body, clock, calls, impSel,
                   done, lastList, restarts, aux, feedList, refreshing, refresh,
                   articleList, loadSeq, error, loading, subs, hydrated, boot>>

\* lines 109-111: the await returns; setArticles(arts) unless the seq is stale
ReloadResume(j) ==
    /\ j \in 1..Len(reloads)
    /\ reloads[j].st = "result"
    /\ articleList' = IF IsCurrent(reloads[j].seq, loadSeq)
                      THEN reloads[j].rows ELSE articleList
    /\ reloads' = [reloads EXCEPT ![j].st = "done",
                                  ![j].applied = IsCurrent(reloads[j].seq, loadSeq),
                                  ![j].later = Len(reloads) - j]
    /\ UNCHANGED <<store, writeLock, queue, promise, body, clock, calls, impSel,
                   done, lastList, restarts, aux, feedList, refreshing, refresh,
                   loadSeq, error, loading, subs, hydrated, boot>>

(***************************************************************************)
(* refreshAllFeeds (part_000:131-143).                                     *)
(***************************************************************************)
\* line 134: feeds.map(async (feed) => ... await fetchFeed(feed.url)) calls
\* fetchFeed for every feed of the list before anything is awaited
StartFetches(list) == [i \in 1..Len(list) |-> Pending]

\* line 134: Promise.allSettled resolves once every fetch has settled
JoinReadyAny(fetch) == \E i \in 1..Len(fetch) : fetch[i].status # "pending"
JoinReady(fetch) == \A i \in 1..Len(fetch) : fetch[i].status # "pending"

\* lines 132-134, up to the await; called by the effect of lines 145-148 once
\* hydrated, and by the refresh button, which is disabled while refreshing.
\* The list is the `feeds` the callback closed over.  A refresh starts only
\* while MaxOps leaves room for an upsert of each of its feeds.
RefreshStart ==
    /\ UiShown(hydrated)
    /\ ~refreshing
    /\ refresh.pc \in {"idle", "done"}
    /\ Len(feedList) > 0
    /\ calls + Len(feedList) <= MaxOps
    /\ Len(reloads) < MaxReloads
    /\ refreshing' = TRUE
    /\ refresh' = [pc |-> "fetching", list |-> feedList,
                   fetch |-> StartFetches(feedList), k |-> 0, op |-> 0,
                   upserted |-> {}, pre |-> articles, rl |-> 0, conn |-> {}]
    /\ UNCHANGED <<store, writeLock, queue, promise, body, clock, calls, impSel,
                   done, lastList, restarts, aux, feedList, ui>>

\* fetchFeed, line 39: the connection of the request for feed i of the list is
\* established (connectTimeout: 12000 applies up to here)
FetchConnect(i) ==
    /\ refresh.pc = "fetching"
    /\ i \in 1..Len(refresh.fetch)
    /\ refresh.fetch[i].status = "pending"
    /\ i \notin refresh.conn
    /\ refresh' = [refresh EXCEPT !.conn = @ \cup {i}]
    /\ UNCHANGED <<store, writeLock, queue, promise, body, clock, calls, impSel,
                   done, lastList, restarts, aux, feedList, refreshing, ui>>

\* fetchFeed (lines 38-50) for feed i of the list settles: it rejects at any
\* moment (no connection, connect timeout, transport error, HTTP status), it
\* fulfils once the response has come in over the connection
FetchSettle(i, res) ==
    /\ refresh.pc = "fetching"
    /\ i \in 1..Len(refresh.fetch)
    /\ refresh.fetch[i].status = "pending"
    /\ res.status = "fulfilled" => i \in refresh.conn
    /\ refresh' = [refresh EXCEPT !.fetch[i] = res]
    /\ UNCHANGED <<store, writeLock, queue, promise, body, clock, calls, impSel,
                   done, lastList, restarts, aux, feedList, refreshing, ui>>

\* line 134: the await of Promise.allSettled returns
RefreshJoin ==
    /\ refresh.pc = "fetching"
    /\ JoinReady(refresh.fetch)
    /\ refresh' = [refresh EXCEPT !.pc = "loop", !.k = 1]
    /\ UNCHANGED <<store, writeLock, queue, promise, body, clock, calls, impSel,
                   done, lastList, restarts, aux, feedList, refreshing, ui>>

\* lines 135-140: one turn of the loop over the results, up to its await; past
\* the last result line 141 is reached
RefreshLoop ==
    /\ refresh.pc = "loop"
    /\ IF refresh.k > Len(refresh.list)
       THEN /\ refresh' = [refresh EXCEPT !.pc = "reload"]
            /\ UNCHANGED <<store, writeLock, queue, promise, body, clock, calls,
                           impSel, done>>
       ELSE LET feed == refresh.list[refresh.k]
                r == refresh.fetch[refresh.k]
            IN  IF r.status = "fulfilled"
                THEN /\ upsertArticles(feed.url,
                            IF feed.name # "" THEN feed.name ELSE r.feedTitle,
                            r.items)
                     /\ refresh' = [refresh EXCEPT
                            !.pc = "await", !.op = Len(promise) + 1,
                            !.upserted = @ \cup {refresh.k}]
                ELSE /\ refresh' = [refresh EXCEPT !.k = @ + 1]
                     /\ UNCHANGED <<store, writeLock, queue, promise, body, clock,
                                    calls, impSel, done>>
    /\ UNCHANGED <<lastList, restarts, aux, feedList, refreshing, ui>>

\* line 138: the awaited upsertArticles has settled; a rejection is thrown out
\* of refreshAllFeeds, which has no try/catch
RefreshResume ==
    /\ refresh.pc = "await"
    /\ promise[refresh.op] # "pending"
    /\ refresh' = IF promise[refresh.op] = "fulfilled"
                  THEN [refresh EXCEPT !.pc = "loop", !.k = @ + 1]
                  ELSE [refresh EXCEPT !.pc = "thrown"]
    /\ UNCHANGED <<store, writeLock, queue, promise, body, clock, calls, impSel,
                   done, lastList, restarts, aux, feedList, refreshing, ui>>

\* line 141: await reloadArticles(), up to its await
RefreshReload ==
    /\ refresh.pc = "reload"
    /\ ReloadCall
    /\ refresh' = [refresh EXCEPT !.pc = "reloading", !.rl = Len(reloads) + 1]
    /\ UNCHANGED <<store, writeLock, queue, promise, body, clock, calls, impSel,
                   done, lastList, restarts, aux, feedList, refreshing, articleList,
                   error, loading, subs, hydrated, boot>>

\* lines 141-142: reloadArticles has returned; setRefreshing(false)
RefreshEnd ==
    /\ refresh.pc = "reloading"
    /\ reloads[refresh.rl].st = "done"
    /\ refreshing' = FALSE
    /\ refresh' = [refresh EXCEPT !.pc = "done"]
    /\ UNCHANGED <<store, writeLock, queue, promise, body, clock, calls, impSel,
                   done, lastList, restarts, aux, feedList, ui>>

(***************************************************************************)
(* addFeed (part_000:150-166) and addSampleFeed (part_000:176-187).        *)
(***************************************************************************)
\* lines 154, 177: feeds.some((f) => f.url === url), on the React state
Subscribed(list, url) == \E k \in 1..Len(list) : list[k].url = url

\* lines 158, 180: the name handed to the store -- result.feedTitle, or the
\* name of the sample if it has one
SubName(sub) == IF sub.name # "" THEN sub.name ELSE sub.res.feedTitle

\* lines 151-157, 177-179: the handler up to its await of fetchFeed.  addFeed
\* (kind "typed") runs on Enter in the url field, whatever `loading` is (line
\* 296), addSampleFeed on a button shown while there is no feed and enabled
\* while not loading (lines 304-308).  Of each invocation: whether its url was
\* a feed of the store when it was made (inStore), and the write it awaits.
SubStart(kind, url, name) ==
    /\ UiShown(hydrated)
    /\ Len(subs) < MaxSubs
    /\ kind = "sample" => ~loading /\ feedList = <<>>
    /\ LET known == Subscribed(feedList, url)
       IN  /\ subs' = Append(subs,
                  [kind |-> kind, url |-> url, name |-> name,
                   pc |-> IF known THEN "rejected" ELSE "fetch",
                   inStore |-> \E f \in feeds : f.url = url,
                   res |-> Pending, op |-> 0, list |-> <<>>, rl |-> 0])
           /\ loading' = IF known THEN loading ELSE TRUE
           /\ error' = IF ~known THEN ""
                       ELSE IF kind = "typed" THEN "Already subscribed." ELSE error
    /\ UNCHANGED <<store, writeLock, queue, promise, body, clock, calls, impSel,
                   done, lastList, restarts, aux, feedList, refreshing, refresh,
                   articleList, loadSeq, reloads, hydrated, boot>>

\* lines 164-165, 185-186: the catch block and setLoading(false)
SubCatch(j) ==
    /\ subs' = [subs EXCEPT ![j].pc = "failed"]
    /\ error' = "Could not fetch"
    /\ loading' = FALSE

\* lines 157-159, 179-180: fetchFeed has settled; on a result dbAddFeed is
\* called
SubFetched(j, res) ==
    /\ j \in 1..Len(subs)
    /\ subs[j].pc = "fetch"
    /\ IF res.status = "fulfilled"
       THEN /\ addFeed(subs[j].url, SubName([subs[j] EXCEPT !.res = res]))
            /\ subs' = [subs EXCEPT ![j].pc = "adding", ![j].res = res,
                                    ![j].op = Len(promise) + 1]
            /\ UNCHANGED <<error, loading>>
       ELSE /\ SubCatch(j)
            /\ UNCHANGED <<store, writeLock, queue, promise, body, clock, calls,
                           impSel, done>>
    /\ UNCHANGED <<lastList, restarts, aux, feedList, refreshing, refresh, articleList,
                   loadSeq, reloads, hydrated, boot>>

\* lines 159-160, 180-181: dbAddFeed has settled; upsertArticles is called
SubAdded(j) ==
    /\ j \in 1..Len(subs)
    /\ subs[j].pc = "adding"
    /\ promise[subs[j].op] # "pending"
    /\ IF promise[subs[j].op] = "fulfilled"
       THEN /\ upsertArticles(subs[j].url, SubName(subs[j]), subs[j].res.items)
            /\ subs' = [subs EXCEPT ![j].pc = "upserting",
                                    ![j].op = Len(promise) + 1]
            /\ UNCHANGED <<error, loading>>
       ELSE /\ SubCatch(j)
            /\ UNCHANGED <<store, writeLock, queue, promise, body, clock, calls,
                           impSel, done>>
    /\ UNCHANGED <<lastList, restarts, aux, feedList, refreshing, refresh, articleList,
                   loadSeq, reloads, hydrated, boot>>

\* lines 160-161, 181-182: upsertArticles has settled; listFeeds() is called
SubUpserted(j) ==
    /\ j \in 1..Len(subs)
    /\ subs[j].pc = "upserting"
    /\ promise[subs[j].op] # "pending"
    /\ IF promise[subs[j].op] = "fulfilled"
       THEN /\ subs' = [subs EXCEPT ![j].pc = "listing"]
            /\ UNCHANGED <<error, loading>>
       ELSE SubCatch(j)
    /\ UNCHANGED <<store, writeLock, queue, promise, body, clock, calls, impSel,
                   done, lastList, restarts, aux, feedList, refreshing, refresh,
                   articleList, loadSeq, reloads, hydrated, boot>>

\* db.js:19-22: the SELECT of listFeeds() runs
SubListFeeds(j) ==
    /\ j \in 1..Len(subs)
    /\ subs[j].pc = "listing"
    /\ \E l \in ListFeeds(feeds) :
          subs' = [subs EXCEPT ![j].pc = "listed", ![j].list = l]
    /\ UNCHANGED <<store, writeLock, queue, promise, body, clock, calls, impSel,
                   done, lastList, restarts, aux, feedList, refreshing, refresh,
                   articleList, loadSeq, reloads, error, loading, hydrated, boot>>

\* lines 161-162, 182-183: setFeeds(...) and reloadArticles() up to its await
SubListed(j) ==
    /\ j \in 1..Len(subs)
    /\ subs[j].pc = "listed"
    /\ feedList' = subs[j].list
    /\ ReloadCall
    /\ subs' = [subs EXCEPT ![j].pc = "reloading", ![j].rl = Len(reloads) + 1]
    /\ UNCHANGED <<store, writeLock, queue, promise, body, clock, calls, impSel,
                   done, lastList, restarts, aux, refreshing, refresh, articleList,
                   error, loading, hydrated, boot>>

\* lines 162-165, 183-186: reloadArticles has returned; setLoading(false)
SubEnd(j) ==
    /\ j \in 1..Len(subs)
    /\ subs[j].pc = "reloading"
    /\ reloads[subs[j].rl].st = "done"
    /\ subs' = [subs EXCEPT ![j].pc = "done"]
    /\ loading' = FALSE
    /\ UNCHANGED <<store, writeLock, queue, promise, body, clock, calls, impSel,
                   done, lastList, restarts, aux, feedList, refreshing, refresh,
                   articleList, loadSeq, reloads, error, hydrated, boot>>

(***************************************************************************)
(* parseRSS (part_000:6-36).  A document is the tree DOMParser builds: an  *)
(* element has a tag, the attributes rel and href (of link elements), text *)
(* and child elements.  The documents of the model carry text in elements  *)
(* without children, so the textContent of an element is its text.  The    *)
(* text of title elements and the href of links are token sequences, as    *)
(* the ids built from them are; every other text is a string.              *)
(***************************************************************************)
El(tag, text, kids) ==
    [tag |-> tag, rel |-> "", href |-> <<>>, text |-> text, kids |-> kids]
Link(rel, href) ==
    [tag |-> "link", rel |-> rel, href |-> href, text |-> <<>>, kids |-> <<>>]

\* the elements under e in document order, each with the tag of its parent
RECURSIVE Walk(_, _)
RECURSIVE WalkAll(_, _)
Walk(e, ptag) == <<[el |-> e, parent |-> ptag]>> \o WalkAll(e.kids, e.tag)
WalkAll(ks, ptag) ==
    IF ks = <<>> THEN <<>> ELSE Walk(Head(ks), ptag) \o WalkAll(Tail(ks), ptag)

\* element.querySelector / querySelectorAll look at the descendants of the
\* element, document.querySelector at every element of the document
Inside(e) == WalkAll(e.kids, e.tag)
InDocument(d) == Walk(d, "none")

\* the selectors of parseRSS: a tag ("feed"), a tag with an attribute
\* ("link[rel='alternate']"), a tag as a child ("feed > title"); "" leaves
\* the attribute or the parent open
Sel(tag) == [tag |-> tag, rel |-> "", parent |-> ""]
SelRel(tag, r) == [tag |-> tag, rel |-> r, parent |-> ""]
SelChild(ptag, tag) == [tag |-> tag, rel |-> "", parent |-> ptag]
Matches(n, sel) ==
    /\ n.el.tag = sel.tag
    /\ sel.rel # "" => n.el.rel = sel.rel
    /\ sel.parent # "" => n.parent = sel.parent

\* querySelector: the first match in document order, or null (NoDoc)
QuerySelector(nodes, sel) ==
    LET hits == {k \in 1..Len(nodes) : Matches(nodes[k], sel)}
    IN  IF hits = {} THEN NoDoc
        ELSE nodes[CHOOSE k \in hits : \A m \in hits : k <= m].el

\* querySelectorAll: every match, in document order
RECURSIVE Ascending(_)
Ascending(S) ==
    IF S = {} THEN <<>>
    ELSE LET k == CHOOSE x \in S : \A y \in S : x <= y
         IN  <<k>> \o Ascending(S \ {k})
QuerySelectorAll(nodes, sel) ==
    LET hits == Ascending({k \in 1..Len(nodes) : Matches(nodes[k], sel)})
    IN  [j \in 1..Len(hits) |-> nodes[hits[j]].el]

ByTag(e, tag) == QuerySelector(Inside(e), Sel(tag))

\* x?.textContent || otherwise, and x?.getAttribute("href") || otherwise:
\* null, and text or an href that is empty, give the right-hand side
TextOr(e, empty, otherwise) ==
    IF e.tag = "none" \/ e.text = empty THEN otherwise ELSE e.text
HrefOr(e, otherwise) ==
    IF e.tag = "none" \/ e.href = <<>> THEN otherwise ELSE e.href

\* lines 15, 28: title
TitleOfRaw(e) == TextOr(ByTag(e, "title"), <<>>, <<>>)
TitleOf(e) == TextOr(ByTag(e, "title"), <<>>, <<"Untitled">>)

\* line 16: the link of an Atom entry
AtomLinkOf(e) ==
    HrefOr(QuerySelector(Inside(e), SelRel("link", "alternate")),
           HrefOr(ByTag(e, "link"), <<>>))

\* line 17: published of an Atom entry
AtomPublishedOnly(e) == TextOr(ByTag(e, "published"), "", "")
AtomPublishedOf(e) ==
    TextOr(ByTag(e, "published"), "", TextOr(ByTag(e, "updated"), "", ""))

\* lines 14-20
AtomItem(e) ==
    [title |-> TitleOf(e),
     link |-> AtomLinkOf(e),
     published |-> AtomPublishedOf(e),
     content |-> TextOr(ByTag(e, "content"), "", TextOr(ByTag(e, "summary"), "", "")),
     author |-> TextOr(QuerySelector(Inside(e), SelChild("author", "name")),
                       "", "")]

\* lines 27-33
RssItem(e) ==
    [title |-> TitleOf(e),
     link |-> TextOr(ByTag(e, "link"), <<>>, <<>>),
     published |-> TextOr(ByTag(e, "pubDate"), "", TextOr(ByTag(e, "dc:date"), "", "")),
     content |-> TextOr(ByTag(e, "content:encoded"), "",
                        TextOr(ByTag(e, "description"), "", "")),
     author |-> TextOr(ByTag(e, "dc:creator"), "", TextOr(ByTag(e, "author"), "", ""))]

\* line 9: !!doc.querySelector("feed")
IsAtomAtRoot(d) == d.tag = "feed"
IsAtom(d) == QuerySelector(InDocument(d), Sel("feed")).tag # "none"

\* lines 6-36
parseRSS(d) ==
    IF IsAtom(d)
    THEN LET entries == QuerySelectorAll(InDocument(d), Sel("entry"))
         IN  [feedTitle |->
                  TextOr(QuerySelector(InDocument(d), SelChild("feed", "title")),
                         <<>>, <<"Untitled">>),
              items |-> [k \in 1..Len(entries) |-> AtomItem(entries[k])]]
    ELSE LET channel == QuerySelector(InDocument(d), Sel("channel"))
             found == QuerySelectorAll(InDocument(d), Sel("item"))
         IN  [feedTitle |->
                  IF channel.tag = "none" THEN <<"Untitled">>
                  ELSE TextOr(ByTag(channel, "title"), <<>>, <<"Untitled">>),
              items |-> [k \in 1..Len(found) |-> RssItem(found[k])]]

\* parseRSS is called with the document
Parse ==
    /\ parsed = <<>>
    /\ parsed' = <<parseRSS(doc)>>
    /\ UNCHANGED <<store, writeLock, queue, promise, body, clock, calls, impSel,
                   done, lastList, restarts, app, db, loads, inits, clicks,
                   marked, doc>>

(***************************************************************************)
(* handleMarkRead, handleToggleRead, handleToggleStar (part_000:189-203).  *)
(***************************************************************************)
\* lines 191, 196, 201: the function setArticles is given, applied to the
\* list as it is when the update runs
MarkedReadInList(list, id) ==
    [k \in DOMAIN list |->
        IF list[k].id = id THEN [list[k] EXCEPT !.is_read = TRUE] ELSE list[k]]
ToggledReadInList(list, id) ==
    [k \in DOMAIN list |->
        IF list[k].id = id THEN [list[k] EXCEPT !.is_read = ~@] ELSE list[k]]
ToggledStarInList(list, id) ==
    [k \in DOMAIN list |->
        IF list[k].id = id THEN [list[k] EXCEPT !.is_starred = ~@] ELSE list[k]]

\* lines 190, 195, 200: a control of an article of the list is used; the
\* handler calls the function of db.js and awaits it.  Of each invocation:
\* which handler, the article, the write it awaits, where it is.
HandlerCall(kind, id) ==
    /\ UiShown(hydrated)
    /\ \E k \in DOMAIN articleList : articleList[k].id = id
    /\ CASE kind = "markRead" -> markRead(id)
         [] kind = "toggleRead" -> toggleRead(id)
         [] kind = "toggleStar" -> toggleStar(id)
    /\ clicks' = Append(clicks, [kind |-> kind, id |-> id, op |-> Len(promise) + 1,
                                 pc |-> "await"])
    /\ UNCHANGED <<lastList, restarts, db, loads, inits, marked, doc, parsed, app>>

\* lines 191, 196, 201: the awaited write has settled; on success setArticles
\* runs, a rejection leaves the handler before it
HandlerResume(c) ==
    /\ c \in 1..Len(clicks)
    /\ clicks[c].pc = "await"
    /\ promise[clicks[c].op] # "pending"
    /\ IF promise[clicks[c].op] = "fulfilled"
       THEN /\ articleList' =
                  CASE clicks[c].kind = "markRead" ->
                           MarkedReadInList(articleList, clicks[c].id)
                    [] clicks[c].kind = "toggleRead" ->
                           ToggledReadInList(articleList, clicks[c].id)
                    [] clicks[c].kind = "toggleStar" ->
                           ToggledStarInList(articleList, clicks[c].id)
            /\ clicks' = [clicks EXCEPT ![c].pc = "done"]
       ELSE /\ clicks' = [clicks EXCEPT ![c].pc = "thrown"]
            /\ UNCHANGED articleList
    /\ UNCHANGED <<store, writeLock, queue, promise, body, clock, calls, impSel,
                   done, lastList, restarts, db, loads, inits, marked, doc, parsed,
                   feedList, refreshing, refresh, loadSeq, reloads, error, loading,
                   subs, hydrated, boot>>

(***************************************************************************)
(* fetchFeed (part_000:38-50).                                             *)
(***************************************************************************)
\* line 45: resp.ok -- the status is in the range 200-299
OkAlways(status) == TRUE
Ok(status) == status \in 200..299

\* lines 45-49: the response has come in.  A status that is not ok throws
\* new Error(`HTTP ${resp.status}`) before the body is read; else the body is
\* read and handed to parseRSS, whose result is the result
fetchFeed(resp) ==
    IF ~Ok(resp.status)
    THEN [status |-> "rejected", feedTitle |-> "", items |-> <<>>,
          error |-> <<"HTTP", resp.status>>]
    ELSE LET result == parseRSS(resp.body)
         IN  [status |-> "fulfilled", feedTitle |-> result.feedTitle,
              items |-> result.items, error |-> <<>>]

\* the response to the request for feed i of a refresh has come in
FetchRespond(i, resp) == FetchSettle(i, fetchFeed(resp))

\* the response to the request of the subscribe handler j has come in
SubRespond(j, resp) == SubFetched(j, fetchFeed(resp))

(***************************************************************************)
(* The specification: the exported functions are called in any order, with *)
(* any arguments, while earlier calls are still queued or running.         *)
(***************************************************************************)
Slots == 1..MaxOps

Next ==
    \/ \E u \in FeedUrls : addFeed(u, NewName) /\ UNCHANGED rest
    \/ \E u \in FeedUrls : removeFeed(u) /\ UNCHANGED rest
    \/ \E u \in FeedUrls, b \in Batches : upsertArticles(u, NewName, b) /\ UNCHANGED rest
    \/ \E a \in FlagIds : markRead(a) /\ UNCHANGED rest
    \/ \E a \in FlagIds : toggleRead(a) /\ UNCHANGED rest
    \/ \E a \in FlagIds : toggleStar(a) /\ UNCHANGED rest
    \/ \E S \in IdLists : markAllRead(S) /\ UNCHANGED rest
    \/ ImportSelect /\ UNCHANGED rest
    \/ ImportContinue /\ UNCHANGED rest
    \/ \E i \in Slots : Begin(i) /\ UNCHANGED rest
    \/ \E i \in Slots : StoreError(i) /\ UNCHANGED rest
    \/ \E i \in Slots : ExecAddFeed(i) /\ UNCHANGED rest
    \/ \E i \in Slots : ExecRemoveFeed(i) /\ UNCHANGED rest
    \/ \E i \in Slots : ExecUpsertItem(i) /\ UNCHANGED rest
    \/ \E i \in Slots : ExecPrune(i) /\ UNCHANGED rest
    \/ \E i \in Slots : ExecMarkRead(i) /\ UNCHANGED rest
    \/ \E i \in Slots : ExecToggleRead(i) /\ UNCHANGED rest
    \/ \E i \in Slots : ExecToggleStar(i) /\ UNCHANGED rest
    \/ \E i \in Slots : ExecMarkAllRead(i) /\ UNCHANGED rest
    \/ \E i \in Slots : ExecImportMarkerOnly(i) /\ UNCHANGED rest
    \/ \E i \in Slots : ExecImportFeed(i) /\ UNCHANGED rest
    \/ \E i \in Slots : ExecImportArticle(i) /\ UNCHANGED rest
    \/ \E i \in Slots : ExecImportMarker(i) /\ UNCHANGED rest
    \/ \E i \in Slots : ExecImportClear(i) /\ UNCHANGED rest

Spec == Init /\ [][Next]_vars

(***************************************************************************)
(* Readers next to writers: listArticles is called, with any arguments, at *)
(* any moment while upserts and star toggles go through the queue of a     *)
(* store in use.                                                           *)
(***************************************************************************)
Filters == {"all", "unread", "starred"}

InitRead == Init /\ articles # {}

NextRead ==
    \/ \E u \in FeedUrls, b \in Batches : upsertArticles(u, NewName, b) /\ UNCHANGED rest
    \/ \E a \in FlagIds : toggleStar(a) /\ UNCHANGED rest
    \/ \E i \in Slots : Begin(i) /\ UNCHANGED rest
    \/ \E i \in Slots : StoreError(i) /\ UNCHANGED rest
    \/ \E i \in Slots : ExecUpsertItem(i) /\ UNCHANGED rest
    \/ \E i \in Slots : ExecPrune(i) /\ UNCHANGED rest
    \/ \E i \in Slots : ExecToggleStar(i) /\ UNCHANGED rest
    \/ \E u \in FeedUrls \cup {<<>>}, f \in Filters :
          Call /\ listArticles(u, f) /\ UNCHANGED <<restarts, aux, app>>

SpecRead == InitRead /\ [][NextRead]_vars

(***************************************************************************)
(* Mark all as read: the unread list is read at any moment, markAllRead is *)
(* called with the ids of the list read last, while upserts go through the *)
(* queue of a store in use.                                                *)
(***************************************************************************)
NextMarkAll ==
    \/ upsertArticles(UrlA, NewName, <<E3, E4, E5>>) /\ UNCHANGED rest
    \/ markListedRead /\ UNCHANGED rest
    \/ \E i \in Slots : Begin(i) /\ UNCHANGED rest
    \/ \E i \in Slots : StoreError(i) /\ UNCHANGED rest
    \/ \E i \in Slots : ExecUpsertItem(i) /\ UNCHANGED rest
    \/ \E i \in Slots : ExecPrune(i) /\ UNCHANGED rest
    \/ \E i \in Slots : ExecMarkAllRead(i) /\ UNCHANGED rest
    \/ listArticles(<<>>, "unread") /\ UNCHANGED <<calls, restarts, aux, app>>

SpecMarkAll == InitRead /\ [][NextMarkAll]_vars

(***************************************************************************)
(* The first starts after the upgrade: the import is called on a store     *)
(* without marker, any of its statements may fail, and the process may be  *)
(* killed at any point and started again.                                  *)
(***************************************************************************)
InitImport == Init /\ ~meta

NextImport ==
    \/ ImportSelect /\ UNCHANGED rest
    \/ ImportContinue /\ UNCHANGED rest
    \/ \E i \in Slots : Begin(i) /\ UNCHANGED rest
    \/ \E i \in Slots : StoreError(i) /\ UNCHANGED rest
    \/ \E i \in Slots : ExecImportMarkerOnly(i) /\ UNCHANGED rest
    \/ \E i \in Slots : ExecImportFeed(i) /\ UNCHANGED rest
    \/ \E i \in Slots : ExecImportArticle(i) /\ UNCHANGED rest
    \/ \E i \in Slots : ExecImportMarker(i) /\ UNCHANGED rest
    \/ \E i \in Slots : ExecImportClear(i) /\ UNCHANGED rest
    \/ Restart

SpecImport == InitImport /\ [][NextImport]_vars

(***************************************************************************)
(* The app after hydration from a store in use: refreshAllFeeds runs, its  *)
(* fetches settle in any order with any result, its upserts go through the *)
(* write queue, where any statement may fail.                              *)
(***************************************************************************)
InitRefresh ==
    /\ InitDb
    /\ feeds # {}
    /\ feedList \in ListFeeds(feeds)
    /\ refreshing = FALSE
    /\ refresh = NoRefresh
    /\ articleList \in ListArticles(articles, <<>>, "all")
    /\ loadSeq = 0
    /\ reloads = <<>>
    /\ error = ""
    /\ loading = FALSE
    /\ subs = <<>>
    /\ hydrated = TRUE
    /\ boot = Booted

NextRefresh ==
    \/ RefreshStart
    \/ \E i \in DOMAIN refresh.fetch : FetchConnect(i)
    \/ \E i \in DOMAIN refresh.fetch, res \in FetchResults : FetchSettle(i, res)
    \/ RefreshJoin
    \/ RefreshLoop
    \/ RefreshResume
    \/ RefreshReload
    \/ \E j \in DOMAIN reloads : ReloadSelect(j)
    \/ \E j \in DOMAIN reloads : ReloadResume(j)
    \/ RefreshEnd
    \/ \E i \in Slots : Begin(i) /\ UNCHANGED rest
    \/ \E i \in Slots : StoreError(i) /\ UNCHANGED rest
    \/ \E i \in Slots : ExecUpsertItem(i) /\ UNCHANGED rest
    \/ \E i \in Slots : ExecPrune(i) /\ UNCHANGED rest

SpecRefresh == InitRefresh /\ [][NextRefresh]_vars

(***************************************************************************)
(* The same with what the runtime schedules: the connect timer of a fetch  *)
(* fires unless the connection is made or fails before, a continuation     *)
(* whose promise has settled runs, a statement handed to the database      *)
(* returns or throws.  Nothing makes a server send its response, and       *)
(* nobody has to press the refresh button.                                 *)
(***************************************************************************)
ConnectOver ==
    \E i \in DOMAIN refresh.fetch :
        /\ i \notin refresh.conn
        /\ \/ FetchConnect(i)
           \/ FetchSettle(i, NoAnswer)

Scheduled ==
    \/ ConnectOver
    \/ RefreshJoin
    \/ RefreshLoop
    \/ RefreshResume
    \/ RefreshReload
    \/ \E j \in DOMAIN reloads : ReloadSelect(j)
    \/ \E j \in DOMAIN reloads : ReloadResume(j)
    \/ RefreshEnd
    \/ \E i \in Slots : Begin(i) /\ UNCHANGED rest
    \/ \E i \in Slots : StoreError(i) /\ UNCHANGED rest
    \/ \E i \in Slots : ExecUpsertItem(i) /\ UNCHANGED rest
    \/ \E i \in Slots : ExecPrune(i) /\ UNCHANGED rest

SpecRefreshFair == InitRefresh /\ [][NextRefresh]_vars /\ WF_vars(Scheduled)

\* The same where, in addition, every server answers: each fetch settles,
\* with a result or a failure.
Answered == \E i \in DOMAIN refresh.fetch, res \in FetchResults : FetchSettle(i, res)

SpecRefreshAnswered ==
    InitRefresh /\ [][NextRefresh]_vars /\ WF_vars(Scheduled) /\ WF_vars(Answered)

(***************************************************************************)
(* The module db.js once it is loaded: initDb is called at any moment, by  *)
(* any caller, and feeds are added once the database is open.              *)
(***************************************************************************)
InitModule ==
    /\ \E s \in InitStores :
        /\ feeds = s.feeds
        /\ articles = s.articles
        /\ meta = s.meta
        /\ localStorage = s.localStorage
        /\ clock = s.clock
    /\ writeLock = 0 /\ queue = <<>> /\ promise = <<>> /\ body = <<>>
    /\ calls = 0 /\ impSel = "idle" /\ done = NoOp
    /\ lastList = NoList /\ restarts = 0
    /\ feedList = <<>> /\ refreshing = FALSE /\ refresh = NoRefresh
    /\ InitUi
    /\ db = 0 /\ loads = 0 /\ inits = <<>>
    /\ clicks = <<>> /\ marked = {} /\ doc = NoDoc /\ parsed = <<>>

NextInitDb ==
    \/ InitDbCall
    \/ \E j \in DOMAIN inits : InitDbLoaded(j)
    \/ \E u \in FeedUrls : Opened /\ addFeed(u, NewName) /\ UNCHANGED rest
    \/ \E i \in Slots : Begin(i) /\ UNCHANGED rest
    \/ \E i \in Slots : ExecAddFeed(i) /\ UNCHANGED rest

SpecInitDb == InitModule /\ [][NextInitDb]_vars

(***************************************************************************)
(* Read marks over time: a store in use in which articles have been marked *)
(* read; the feed is refreshed with more entries than the cap keeps,       *)
(* articles are starred and unstarred, marked read, toggled, the feed is   *)
(* removed, and the list is read at any moment.  `marked` holds the        *)
(* articles markRead has set read, until a toggleRead of the article or a  *)
(* removeFeed of its feed.                                                 *)
(***************************************************************************)
MarkOf(r) == [id |-> r.id, feedUrl |-> r.feedUrl]

\* markRead has been executed for the rows of ids
MarkedIn(artRows, ids) == {MarkOf(r) : r \in {x \in artRows : x.id \in ids}}

InitSticky ==
    /\ \E ids \in {{ArticleId(UrlA, E1)}, {ArticleId(UrlA, E1), ArticleId(UrlA, E3)}} :
          /\ articles = SetRead(UsedArticles, ids)
          /\ marked = MarkedIn(UsedArticles, ids)
    /\ feeds = UsedFeeds /\ meta = TRUE /\ localStorage = NoLegacy /\ clock = 2
    /\ writeLock = 0 /\ queue = <<>> /\ promise = <<>> /\ body = <<>>
    /\ calls = 0 /\ impSel = "idle" /\ done = NoOp
    /\ lastList = NoList /\ restarts = 0
    /\ feedList = <<>> /\ refreshing = FALSE /\ refresh = NoRefresh
    /\ InitUi
    /\ db = 1 /\ loads = 1 /\ inits = <<>> /\ clicks = <<>>
    /\ doc = NoDoc /\ parsed = <<>>

\* the UPDATE of markRead runs: its article counts as marked from here
MarkReadDone(i) ==
    /\ ExecMarkRead(i)
    /\ marked' = marked \cup MarkedIn(articles, {queue[i].aid})
    /\ UNCHANGED <<lastList, restarts, db, loads, inits, clicks, doc, parsed, app>>

\* the UPDATE of toggleRead runs: its article no longer counts
ToggleReadDone(i) ==
    /\ ExecToggleRead(i)
    /\ marked' = {m \in marked : m.id # queue[i].aid}
    /\ UNCHANGED <<lastList, restarts, db, loads, inits, clicks, doc, parsed, app>>

\* the DELETE of removeFeed runs: the articles of the feed no longer count
RemoveFeedDone(i) ==
    /\ ExecRemoveFeed(i)
    /\ marked' = {m \in marked : m.feedUrl # queue[i].url}
    /\ UNCHANGED <<lastList, restarts, db, loads, inits, clicks, doc, parsed, app>>

NextSticky ==
    \/ upsertArticles(UrlA, NewName, <<E3, E4, E5>>) /\ UNCHANGED rest
    \/ toggleStar(ArticleId(UrlA, E1)) /\ UNCHANGED rest
    \/ markRead(ArticleId(UrlA, E4)) /\ UNCHANGED rest
    \/ toggleRead(ArticleId(UrlA, E3)) /\ UNCHANGED rest
    \/ removeFeed(UrlA) /\ UNCHANGED rest
    \/ \E i \in Slots : Begin(i) /\ UNCHANGED rest
    \/ \E i \in Slots : ExecUpsertItem(i) /\ UNCHANGED rest
    \/ \E i \in Slots : ExecPrune(i) /\ UNCHANGED rest
    \/ \E i \in Slots : ExecToggleStar(i) /\ UNCHANGED rest
    \/ \E i \in Slots : MarkReadDone(i)
    \/ \E i \in Slots : ToggleReadDone(i)
    \/ \E i \in Slots : RemoveFeedDone(i)
    \/ listArticles(<<>>, "all") /\ UNCHANGED <<calls, restarts, aux, app>>

SpecSticky == InitSticky /\ [][NextSticky]_vars

(***************************************************************************)
(* Flags and reloads: the app after hydration from a store in use.  The    *)
(* controls of an article are used at any moment, and reloadArticles is    *)
(* called at any moment (by a refresh, a subscribe or the removal of a     *)
(* feed); writes and reads return in any order.                            *)
(***************************************************************************)
NextFlags ==
    \/ \E kind \in {"markRead", "toggleRead", "toggleStar"} :
          HandlerCall(kind, ArticleId(UrlA, E3))
    \/ \E c \in DOMAIN clicks : HandlerResume(c)
    \/ reloadArticles
    \/ \E j \in DOMAIN reloads : ReloadSelect(j)
    \/ \E j \in DOMAIN reloads : ReloadResume(j)
    \/ \E i \in Slots : Begin(i) /\ UNCHANGED rest
    \/ \E i \in Slots : StoreError(i) /\ UNCHANGED rest
    \/ \E i \in Slots : ExecMarkRead(i) /\ UNCHANGED rest
    \/ \E i \in Slots : ExecToggleRead(i) /\ UNCHANGED rest
    \/ \E i \in Slots : ExecToggleStar(i) /\ UNCHANGED rest

SpecFlags == InitRefresh /\ [][NextFlags]_vars

(***************************************************************************)
(* Overlapping reloads: handlers call reloadArticles at any moment, while  *)
(* feeds are removed through the write queue, so that the SELECTs of two   *)
(* reloads may see different stores and return in any order.               *)
(***************************************************************************)
NextReload ==
    \/ reloadArticles
    \/ \E j \in DOMAIN reloads : ReloadSelect(j)
    \/ \E j \in DOMAIN reloads : ReloadResume(j)
    \/ \E u \in FeedUrls : removeFeed(u) /\ UNCHANGED rest
    \/ \E i \in Slots : Begin(i) /\ UNCHANGED rest
    \/ \E i \in Slots : ExecRemoveFeed(i) /\ UNCHANGED rest

SpecReload == InitRefresh /\ [][NextReload]_vars

(***************************************************************************)
(* Subscribing: the app after hydration of a fresh install.  Urls are      *)
(* submitted from the url field and the sample buttons at any moment, the  *)
(* fetches settle with any result, the writes go through the queue, where  *)
(* any statement may fail.                                                 *)
(***************************************************************************)
InitSubscribe ==
    /\ feeds = {} /\ articles = {} /\ meta = TRUE
    /\ localStorage = NoLegacy /\ clock = 0
    /\ writeLock = 0 /\ queue = <<>> /\ promise = <<>> /\ body = <<>>
    /\ calls = 0 /\ impSel = "idle" /\ done = NoOp
    /\ lastList = NoList /\ restarts = 0
    /\ InitAux
    /\ feedList = <<>> /\ refreshing = FALSE /\ refresh = NoRefresh
    /\ articleList = <<>> /\ loadSeq = 0 /\ reloads = <<>>
    /\ error = "" /\ loading = FALSE /\ subs = <<>>
    /\ hydrated = TRUE /\ boot = Booted

NextSubscribe ==
    \/ \E u \in FeedUrls : SubStart("typed", u, "")
    \/ SubStart("sample", UrlA, NewName)
    \/ \E j \in DOMAIN subs, res \in FetchResults : SubFetched(j, res)
    \/ \E j \in DOMAIN subs : SubAdded(j)
    \/ \E j \in DOMAIN subs : SubUpserted(j)
    \/ \E j \in DOMAIN subs : SubListFeeds(j)
    \/ \E j \in DOMAIN subs : SubListed(j)
    \/ \E j \in DOMAIN subs : SubEnd(j)
    \/ \E j \in DOMAIN reloads : ReloadSelect(j)
    \/ \E j \in DOMAIN reloads : ReloadResume(j)
    \/ \E i \in Slots : Begin(i) /\ UNCHANGED rest
    \/ \E i \in Slots : StoreError(i) /\ UNCHANGED rest
    \/ \E i \in Slots : ExecAddFeed(i) /\ UNCHANGED rest
    \/ \E i \in Slots : ExecUpsertItem(i) /\ UNCHANGED rest
    \/ \E i \in Slots : ExecPrune(i) /\ UNCHANGED rest

SpecSubscribe == InitSubscribe /\ [][NextSubscribe]_vars

(***************************************************************************)
(* Responses: the app after hydration, of a store in use or of a fresh     *)
(* install.  Feeds are refreshed and samples subscribed to; every request  *)
(* is answered with some status and some body, or not at all, and the      *)
(* writes go through the queue.                                            *)
(***************************************************************************)
\* the ends of the ok range, the first status past it, and a failure
HttpStatuses == {200, 299, 300, 404}

\* an Atom document with one entry, and text that is not a feed (an error
\* page)
Bodies ==
    {El("feed", <<>>,
         <<El("title", <<"ft">>, <<>>),
           El("entry", <<>>, <<El("title", <<"t5">>, <<>>),
                               Link("alternate", <<"e">>),
                               El("updated", "d2", <<>>)>>)>>),
     El("html", <<>>, <<El("title", <<"Not Found">>, <<>>)>>)}

Responses == [status : HttpStatuses, body : Bodies]

InitFetch == InitRefresh \/ InitSubscribe

NextFetch ==
    \/ RefreshStart
    \/ \E i \in DOMAIN refresh.fetch : FetchConnect(i)
    \/ \E i \in DOMAIN refresh.fetch : FetchSettle(i, NoAnswer)
    \/ \E i \in DOMAIN refresh.fetch, resp \in Responses : FetchRespond(i, resp)
    \/ RefreshJoin
    \/ RefreshLoop
    \/ RefreshResume
    \/ RefreshReload
    \/ \E j \in DOMAIN reloads : ReloadSelect(j)
    \/ \E j \in DOMAIN reloads : ReloadResume(j)
    \/ RefreshEnd
    \/ \E u \in FeedUrls : SubStart("sample", u, NewName)
    \/ \E j \in DOMAIN subs, resp \in Responses : SubRespond(j, resp)
    \/ \E j \in DOMAIN subs : SubAdded(j)
    \/ \E j \in DOMAIN subs : SubUpserted(j)
    \/ \E j \in DOMAIN subs : SubListFeeds(j)
    \/ \E j \in DOMAIN subs : SubListed(j)
    \/ \E j \in DOMAIN subs : SubEnd(j)
    \/ \E i \in Slots : Begin(i) /\ UNCHANGED rest
    \/ \E i \in Slots : ExecAddFeed(i) /\ UNCHANGED rest
    \/ \E i \in Slots : ExecUpsertItem(i) /\ UNCHANGED rest
    \/ \E i \in Slots : ExecPrune(i) /\ UNCHANGED rest

SpecFetch == InitFetch /\ [][NextFetch]_vars

(***************************************************************************)
(* Startup: the app is mounted on any of the initial stores and hydrates;  *)
(* what the app lets its user do -- refresh, subscribe -- and the          *)
(* automatic refresh happen whenever the app allows them.                  *)
(***************************************************************************)
BootFetchResults ==
    {res \in FetchResults : res.status = "fulfilled" => res.items = <<E2>>}

NextBoot ==
    \/ BootInitDb
    \/ BootImportCall
    \/ BootImportContinue
    \/ BootImported
    \/ BootListFeeds
    \/ BootListArticles
    \/ RefreshStart
    \/ \E i \in DOMAIN refresh.fetch : FetchConnect(i)
    \/ \E i \in DOMAIN refresh.fetch, res \in BootFetchResults : FetchSettle(i, res)
    \/ RefreshJoin
    \/ RefreshLoop
    \/ RefreshResume
    \/ RefreshReload
    \/ RefreshEnd
    \/ SubStart("typed", UrlA, "")
    \/ \E j \in DOMAIN subs, res \in BootFetchResults : SubFetched(j, res)
    \/ \E j \in DOMAIN subs : SubAdded(j)
    \/ \E j \in DOMAIN subs : SubUpserted(j)
    \/ \E j \in DOMAIN subs : SubListFeeds(j)
    \/ \E j \in DOMAIN subs : SubListed(j)
    \/ \E j \in DOMAIN subs : SubEnd(j)
    \/ \E j \in DOMAIN reloads : ReloadSelect(j)
    \/ \E j \in DOMAIN reloads : ReloadResume(j)
    \/ \E i \in Slots : Begin(i) /\ UNCHANGED rest
    \/ \E i \in Slots : StoreError(i) /\ UNCHANGED rest
    \/ \E i \in Slots : ExecAddFeed(i) /\ UNCHANGED rest
    \/ \E i \in Slots : ExecUpsertItem(i) /\ UNCHANGED rest
    \/ \E i \in Slots : ExecPrune(i) /\ UNCHANGED rest
    \/ \E i \in Slots : ExecImportMarkerOnly(i) /\ UNCHANGED rest
    \/ \E i \in Slots : ExecImportFeed(i) /\ UNCHANGED rest
    \/ \E i \in Slots : ExecImportArticle(i) /\ UNCHANGED rest
    \/ \E i \in Slots : ExecImportMarker(i) /\ UNCHANGED rest
    \/ \E i \in Slots : ExecImportClear(i) /\ UNCHANGED rest

SpecBoot == Init /\ [][NextBoot]_vars

(***************************************************************************)
(* Parsing: parseRSS is called with a document of one of these shapes.     *)
(***************************************************************************)
\* the sequences over S of length up to n
SeqsUpTo(S, n) == UNION {[1..k -> S] : k \in 0..n}

\* RSS items: without a title, with an empty one, with one, with a title
\* only further down; with and without link and pubDate
RssItems ==
    {El("item", <<>>, t \o l \o p) :
        t \in {<<>>, <<El("title", <<>>, <<>>)>>, <<El("title", <<"t1">>, <<>>)>>,
               <<El("source", <<>>, <<El("title", <<"s">>, <<>>)>>)>>},
        l \in {<<>>, <<El("link", <<"c">>, <<>>)>>},
        p \in {<<>>, <<El("pubDate", "d1", <<>>)>>}}

\* the links of an Atom entry
LinkLists ==
    {<<>>,
     <<Link("alternate", <<"c">>)>>,
     <<Link("self", <<"d">>), Link("alternate", <<"c">>)>>,
     <<Link("self", <<"d">>)>>,
     <<Link("alternate", <<>>), Link("alternate", <<"c">>)>>,
     <<Link("alternate", <<>>), Link("self", <<"d">>)>>,
     <<Link("", <<>>)>>,
     <<Link("", <<>>), Link("self", <<"d">>)>>}

\* Atom entries: with and without title, any of the link lists, published
\* absent, empty or given, updated absent or given
AtomEntries ==
    {El("entry", <<>>, t \o l \o p \o u) :
        t \in {<<>>, <<El("title", <<"t1">>, <<>>)>>},
        l \in LinkLists,
        p \in {<<>>, <<El("published", "", <<>>)>>, <<El("published", "d1", <<>>)>>},
        u \in {<<>>, <<El("updated", "d2", <<>>)>>}}

\* a few entries for the documents with more than one
FewEntries ==
    {El("entry", <<>>, <<El("title", <<"t1">>, <<>>), Link("alternate", <<"c">>)>>),
     El("entry", <<>>, <<Link("self", <<"d">>), El("updated", "d2", <<>>)>>),
     El("entry", <<>>, <<El("entry", <<>>, <<El("title", <<"t5">>, <<>>)>>)>>)}

Docs ==
    \* RSS: a channel, with or without its title, and its items
    {El("rss", <<>>, <<El("channel", <<>>, t \o its)>>) :
        t \in {<<>>, <<El("title", <<"ft">>, <<>>)>>},
        its \in SeqsUpTo(RssItems, MaxItems)}
    \* Atom: a feed with one entry of any kind, or several of the few
    \cup {El("feed", <<>>, <<El("title", <<"ft">>, <<>>), e>>) : e \in AtomEntries}
    \cup {El("feed", <<>>, es) : es \in SeqsUpTo(FewEntries, MaxItems)}
    \* both families in one document, the feed element at any depth
    \cup {El("rss", <<>>, <<El("channel", <<>>,
                  <<El("feed", <<>>, es), El("item", <<>>, <<>>)>>)>>) :
             es \in SeqsUpTo(FewEntries, 1)}
    \cup {El("feed", <<>>, <<El("item", <<>>, <<El("title", <<"t1">>, <<>>)>>)>> \o es) :
             es \in SeqsUpTo(FewEntries, 1)}
    \* neither: what DOMParser returns for text that is not XML, and entries
    \* without a feed element around them
    \cup {El("parsererror", <<>>, <<>>)}
    \cup {El("html", <<>>, es) : es \in SeqsUpTo(FewEntries, 1)}

InitParse ==
    /\ \E s \in {t \in InitStores : t.meta} :
        /\ feeds = s.feeds
        /\ articles = s.articles
        /\ meta = s.meta
        /\ localStorage = s.localStorage
        /\ clock = s.clock
    /\ writeLock = 0 /\ queue = <<>> /\ promise = <<>> /\ body = <<>>
    /\ calls = 0 /\ impSel = "idle" /\ done = NoOp
    /\ lastList = NoList /\ restarts = 0
    /\ feedList = <<>> /\ refreshing = FALSE /\ refresh = NoRefresh
    /\ InitUi
    /\ db = 1 /\ loads = 1 /\ inits = <<>> /\ clicks = <<>> /\ marked = {}
    /\ doc \in Docs
    /\ parsed = <<>>

SpecParse == InitParse /\ [][Parse]_vars

(***************************************************************************)
(* Claims.                                                                 *)
(***************************************************************************)
UpsertDone == done.kind = "upsertArticles" /\ done.outcome = "ok"

\* the last index of items whose derived id is id, 0 if there is none
LastWithId(feedUrl, items, upto, id) ==
    LET hits == {k \in 1..upto :
                    feedUrl \o <<"::">> \o
                        (IF items[k].link = <<>> THEN items[k].title ELSE items[k].link)
                    = id}
    IN  IF hits = {} THEN 0 ELSE CHOOSE k \in hits : \A j \in hits : j <= k

\* row r is old rewritten from item by an upsert at time now under feedName:
\* the descriptive fields are the item's, the flags and the feed are old's
Rewritten(r, old, item, feedName, now) ==
    /\ r.id = old.id /\ r.feedUrl = old.feedUrl
    /\ r.title = item.title /\ r.link = item.link /\ r.content = item.content
    /\ r.author = item.author /\ r.published = item.published
    /\ r.publishedTs = (IF item.published = "d1" THEN 1
                        ELSE IF item.published = "d2" THEN 2 ELSE 0)
    /\ r.feedName = feedName /\ r.fetchedAt = now
    /\ r.isRead = old.isRead /\ r.isStarred = old.isStarred

\* C1: an upsertArticles call whose batch holds an entry with the derived id of
\* an article already stored overwrites title, link, content, author, published,
\* publishedTs, feedName and fetchedAt with the values of (the last such) entry
\* and leaves isRead and isStarred as they were: so it is once the loop has
\* passed the entry, and after the call for every such row still stored; a
\* starred row is still stored.
C1_UpsertKeepsFlags ==
    /\ \A i \in 1..Len(queue) :
         (queue[i].kind = "upsertArticles" /\ queue[i].st = "running") =>
            \A old \in queue[i].pre.articles :
               LET k == LastWithId(queue[i].url, queue[i].items, queue[i].pc - 1, old.id)
               IN  k > 0 =>
                     \E r \in articles :
                        Rewritten(r, old, queue[i].items[k], queue[i].name, queue[i].now)
    /\ UpsertDone =>
         \A old \in done.pre.articles :
            LET k == LastWithId(done.url, done.items, Len(done.items), old.id)
            IN  k > 0 =>
                  /\ \A r \in articles :
                        r.id = old.id =>
                            Rewritten(r, old, done.items[k], done.name, done.now)
                  /\ old.isStarred => \E r \in articles : r.id = old.id

\* a read, starred article was upserted again with another title and content and
\* is still read and starred
C1_Witness ==
    /\ UpsertDone
    /\ \E old \in done.pre.articles, r \in articles :
         /\ old.isRead /\ old.isStarred
         /\ LastWithId(done.url, done.items, Len(done.items), old.id) > 0
         /\ r.id = old.id /\ r.title # old.title /\ r.content # old.content
         /\ r.isRead /\ r.isStarred

\* C2: in every reachable state, however subscribe (addFeed, upsertArticles),
\* unsubscribe (removeFeed), the upserts of a refresh that fetched from an
\* earlier feed list, and the legacy import interleave, every article's feedUrl
\* is the url of a feed in the store.
C2_ArticlesHaveLiveFeed ==
    \A r \in articles : \E f \in feeds : f.url = r.feedUrl

\* an upsert for a feed that has been removed was refused at its first new row,
\* while articles of another feed are stored
C2_Witness ==
    /\ done.kind = "upsertArticles" /\ done.outcome = "err"
    /\ done.pc = 1 /\ Len(done.items) > 0
    /\ \A f \in feeds : f.url # done.url
    /\ \A r \in articles : r.id # done.url \o <<"::">> \o done.items[1].link
    /\ articles # {}

NonStarredOf(rows, feedUrl) == {r \in rows : r.feedUrl = feedUrl /\ ~r.isStarred}

\* C3: after every completed store mutation (upsertArticles, markRead,
\* toggleRead, toggleStar, markAllRead, addFeed, removeFeed, the import) every
\* feed has at most 500 (here PruneLimit) non-starred articles in the store.
C3_CapAfterEveryMutation ==
    (done.kind # "none" /\ done.outcome = "ok") =>
        \A u \in FeedUrls : Cardinality(NonStarredOf(articles, u)) <= PruneLimit

\* x comes before y in the order publishedTs descending, fetchedAt descending
Newer(x, y) ==
    \/ x.publishedTs > y.publishedTs
    \/ x.publishedTs = y.publishedTs /\ x.fetchedAt > y.fetchedAt

\* C4: right after upsertArticles(F, ...) completes, the non-starred articles of
\* F in the store are the first min(n, 500) of the n non-starred articles F had
\* after the inserts and updates of the batch, in the order publishedTs
\* descending then fetchedAt descending: min(n, PruneLimit) of them are left,
\* unchanged, and none that was deleted comes before one that was kept.
C4_PruneKeepsNewest ==
    UpsertDone =>
        LET had == NonStarredOf(done.mid, done.url)
            has == NonStarredOf(articles, done.url)
        IN  /\ has \subseteq had
            /\ Cardinality(has) = Min(Cardinality(had), PruneLimit)
            /\ \A k \in has, d \in had \ has : ~Newer(d, k)

\* an upsert has pruned a feed that held more than the cap, and a deleted row
\* was strictly older than a kept one
C4_Witness ==
    /\ UpsertDone
    /\ Cardinality(NonStarredOf(done.mid, done.url)) > PruneLimit
    /\ \E k \in NonStarredOf(articles, done.url),
          d \in NonStarredOf(done.mid, done.url) \ articles : Newer(k, d)

\* C5: upsertArticles(A, ...) never deletes, inserts or modifies an article
\* whose feedUrl differs from A.
C5_OtherFeedsUntouched ==
    UpsertDone =>
        {r \in done.pre.articles : r.feedUrl # done.url}
            = {r \in articles : r.feedUrl # done.url}

\* C6: no upsertArticles call deletes an article that is starred when the prune
\* runs, however many starred or non-starred articles its feed holds.
C6_StarredSurvivePrune ==
    UpsertDone => \A r \in done.mid : r.isStarred => r \in articles

\* an upsert has pruned non-starred rows of a feed that holds a starred row and
\* afterwards holds more rows than the cap
C6_Witness ==
    /\ UpsertDone
    /\ articles # done.mid
    /\ \E r \in articles : r.isStarred /\ r.feedUrl = done.url
    /\ Cardinality({r \in articles : r.feedUrl = done.url}) > PruneLimit

\* C7: after removeFeed(url) completes the store holds neither the feed row of
\* url nor an article with that feedUrl, and every feed row and every article
\* of any other feed is as it was.
C7_RemoveFeedCascades ==
    (done.kind = "removeFeed" /\ done.outcome = "ok") =>
        /\ \A f \in feeds : f.url # done.url
        /\ \A r \in articles : r.feedUrl # done.url
        /\ feeds = {f \in done.pre.feeds : f.url # done.url}
        /\ articles = {r \in done.pre.articles : r.feedUrl # done.url}

\* a feed with articles was removed while another feed with articles stays
C7_Witness ==
    /\ done.kind = "removeFeed" /\ done.outcome = "ok"
    /\ \E f \in done.pre.feeds : f.url = done.url
    /\ \E r \in done.pre.articles : r.feedUrl = done.url
    /\ feeds # {} /\ articles # {}

RunningIds == {queue[i].id : i \in {j \in 1..Len(queue) : queue[j].st = "running"}}

\* the body of write k has been entered
Started(k) == k \in RunningIds \/ body[k] # "none"

\* C8: at most one write operation body is executing at any time: between the
\* statements of one upsertArticles call (its inserts and its prune) no other
\* write body runs, however many writes have been submitted.
C8_OneWriterAtATime == Cardinality(RunningIds) <= 1

\* an upsert is between two of its statements while a later write waits
C8_Witness ==
    /\ Len(queue) >= 2
    /\ queue[1].kind = "upsertArticles" /\ queue[1].st = "running"
    /\ queue[1].pc > 1 /\ queue[1].pc <= Len(queue[1].items)
    /\ queue[2].st = "queued"

\* C9: writes run in submission order: if W1 was submitted before W2, the body
\* of W1 has finished (succeeded or failed) before the body of W2 starts.
C9_SubmissionOrder ==
    \A k \in 1..Len(promise) :
        Started(k) => \A j \in 1..(k - 1) : body[j] # "none" /\ j \notin RunningIds

\* the second write is running, and the first one's body has finished
C9_Witness ==
    /\ Len(promise) >= 2
    /\ body[1] # "none"
    /\ 2 \in RunningIds
    /\ body[2] = "none"

\* C10: when a queued write fails its own caller observes the failure, and the
\* writes submitted after it still run and can succeed: a promise is rejected
\* exactly when its own body failed, no promise settles without its body having
\* run, and while writes are queued one is running or the oldest can start.
C10_FailureIsolation ==
    /\ \A k \in 1..Len(promise) :
         /\ body[k] = "err" <=> promise[k] = "rejected"
         /\ promise[k] # "pending" => body[k] # "none"
    /\ queue # <<>> =>
         \/ RunningIds # {}
         \/ /\ queue[1].st = "queued"
            /\ queue[1].pred = 0 \/ promise[queue[1].pred] # "pending"

\* a write failed, its caller saw the rejection, and a later write succeeded
C10_Witness ==
    \E j, k \in 1..Len(promise) :
        /\ j < k
        /\ body[j] = "err" /\ promise[j] = "rejected"
        /\ body[k] = "ok" /\ promise[k] = "fulfilled"

\* C11: when a write operation fails part-way (upsertArticles on its k-th
\* entry or on the prune, the import on some row) the store is exactly as it
\* was before the operation started: none of its earlier statements stays
\* applied.
C11_FailedWriteAppliesNothing ==
    (done.kind \in {"upsertArticles", "import"} /\ done.outcome = "err") =>
        /\ feeds = done.pre.feeds
        /\ articles = done.pre.articles

\* the key an entry is stored under within its feed
KeyOf(e) == IF e.link = <<>> THEN e.title ELSE e.link

\* C18: in every reachable state no two article rows share an id; entries of
\* one feed with the same link (or, without link, the same title) have the same
\* derived id, and after an upsert of a batch each of its entries has at most
\* one row.
C18_ArticleIdsUnique ==
    /\ \A r1, r2 \in articles : r1.id = r2.id => r1 = r2
    /\ \A u \in FeedUrls, e1, e2 \in Entries :
          KeyOf(e1) = KeyOf(e2) => ArticleId(u, e1) = ArticleId(u, e2)
    /\ UpsertDone =>
          \A k \in 1..Len(done.items) :
             Cardinality({r \in articles :
                            r.id = done.url \o <<"::">> \o KeyOf(done.items[k])}) <= 1

\* a batch held two entries with one link and different titles; one row has
\* their id, with the fields of the later entry
C18_Witness ==
    /\ UpsertDone
    /\ \E j, k \in 1..Len(done.items) :
          /\ j < k
          /\ done.items[j].link = done.items[k].link
          /\ done.items[j].title # done.items[k].title
          /\ \E r \in articles :
                /\ r.id = done.url \o <<"::">> \o done.items[k].link
                /\ r.title = done.items[k].title

\* the rows of articles whose id is the derived id of entry e of feed feedUrl
RowsOf(rows, feedUrl, e) == {r \in rows : r.id = feedUrl \o <<"::">> \o KeyOf(e)}

\* C19 as stated: after the same entries were upserted for the same feed twice
\* in a row, each entry has exactly one article, which is the article the first
\* upsert left but for fetchedAt, the time of the second upsert.
C19_RepeatLeavesExactlyOne ==
    (UpsertDone /\ done.again) =>
        \A k \in 1..Len(done.items) :
           /\ Cardinality(RowsOf(articles, done.url, done.items[k])) = 1
           /\ \A r \in RowsOf(articles, done.url, done.items[k]) :
                 \E old \in done.pre.articles :
                    r = [old EXCEPT !.fetchedAt = done.now]

\* C19: after the same entries were upserted for the same feed twice in a row,
\* each entry has at most one article (none if the prune of the first or of the
\* second upsert dropped it under the cap); an article the first upsert left
\* and the second one kept has isRead, isStarred and every descriptive field
\* as the first upsert left them, and fetchedAt the time of the second upsert.
C19_RepeatedUpsert ==
    (UpsertDone /\ done.again) =>
        \A k \in 1..Len(done.items) :
           /\ Cardinality(RowsOf(articles, done.url, done.items[k])) <= 1
           /\ \A r \in RowsOf(articles, done.url, done.items[k]),
                 old \in RowsOf(done.pre.articles, done.url, done.items[k]) :
                    r = [old EXCEPT !.fetchedAt = done.now]

\* a starred article was upserted twice in a row, the second time later
C19_Witness ==
    /\ UpsertDone /\ done.again
    /\ \E k \in 1..Len(done.items) :
          \E r \in RowsOf(articles, done.url, done.items[k]),
             old \in RowsOf(done.pre.articles, done.url, done.items[k]) :
                /\ old.isStarred /\ r.isStarred
                /\ r.fetchedAt > old.fetchedAt

\* C12: a listArticles call that overlaps a write operation returns what the
\* same query returns on the store before that operation or on the store after
\* it, never a state in between.
C12_ReadsSeePreOrPost ==
    (lastList.during # 0 /\ done.id = lastList.during /\ done.outcome = "ok") =>
        lastList.rows \in
            ListArticles(done.pre.articles, lastList.feedUrl, lastList.filter)
                \cup ListArticles(articles, lastList.feedUrl, lastList.filter)

\* the refresh has ended: it ran to its last line, or it threw
RefreshOver == refresh.pc \in {"done", "thrown"}

\* upsertArticles was called for feed i of the list of the refresh
Upserted(i) == i \in refresh.upserted

\* C13: in a refresh over several feeds, a feed whose fetch failed has its
\* stored articles as they were when the refresh started, and every feed whose
\* fetch succeeded has had its entries upserted in that refresh, whichever and
\* however many sibling fetches failed.
C13_FetchFailuresIsolated ==
    RefreshOver =>
        \A i \in 1..Len(refresh.list) :
           /\ refresh.fetch[i].status = "rejected" =>
                 {r \in articles : r.feedUrl = refresh.list[i].url}
                     = {r \in refresh.pre : r.feedUrl = refresh.list[i].url}
           /\ refresh.fetch[i].status = "fulfilled" => Upserted(i)

\* C14: if upsertArticles fails with a store error for one feed during a
\* refresh, the upserts of all other successfully fetched feeds of that refresh
\* are still performed.
C14_UpsertFailureIsolated ==
    (refresh.pc = "thrown" /\ body[refresh.op] = "err") =>
        \A i \in 1..Len(refresh.list) :
           refresh.fetch[i].status = "fulfilled" => Upserted(i)

\* C20: within one refresh a fetch is started for every feed of the list at
\* once, and no upsertArticles of the refresh is called while one of those
\* fetches has not settled.
C20_FetchAllThenUpsert ==
    /\ refresh.pc # "idle" =>
          /\ Len(refresh.fetch) = Len(refresh.list)
          /\ refresh.list # <<>>
    /\ (refresh.pc \in {"loop", "await"} \/ refresh.upserted # {}) =>
          \A i \in 1..Len(refresh.fetch) : refresh.fetch[i].status # "pending"

\* the first upsert of a refresh over two feeds is running; the fetch of the
\* first feed had failed, the one of the second had succeeded
C20_Witness ==
    /\ Len(refresh.list) = 2
    /\ refresh.fetch[1].status = "rejected"
    /\ refresh.fetch[2].status = "fulfilled"
    /\ refresh.pc = "await" /\ refresh.upserted = {2}
    /\ \E i \in 1..Len(queue) : queue[i].id = refresh.op /\ queue[i].st = "running"

ImportDone == done.kind = "import" /\ done.outcome = "ok"

\* the article row a complete import of legacy data L at time t makes of the
\* legacy article a
ImportedRow(a, L, t) ==
    [id |-> a.id, feedUrl |-> a.feedUrl, feedName |-> a.feedName,
     title |-> a.title, link |-> a.link, published |-> a.published,
     publishedTs |-> (IF a.published = "d1" THEN 1
                      ELSE IF a.published = "d2" THEN 2 ELSE 0),
     content |-> a.content, author |-> a.author,
     isRead |-> a.id \in L.read, isStarred |-> a.id \in L.starred,
     fetchedAt |-> t]

\* the store one uninterrupted import of L at time t produces from the empty
\* database
ImportedFeeds(L) == {L.feeds[k] : k \in 1..Len(L.feeds)}
ImportedArticles(L, t) == {ImportedRow(L.articles[k], L, t) : k \in 1..Len(L.articles)}

\* C15 as stated: when an import that was interrupted before its marker and run
\* again on the same legacy data has completed, the store has no duplicate
\* feed or article rows and is the store one uninterrupted run produces.
C15_RerunEqualsOneRun ==
    ImportDone =>
        /\ \A f1, f2 \in feeds : f1.url = f2.url => f1 = f2
        /\ \A r1, r2 \in articles : r1.id = r2.id => r1 = r2
        /\ feeds = ImportedFeeds(done.legacy)
        /\ \E t \in 0..clock : articles = ImportedArticles(done.legacy, t)

\* C15: when an import, interrupted or not, has completed, the store has no
\* duplicate feed or article rows and holds the rows one uninterrupted run
\* produces, each with the fetchedAt of the run that inserted it; and once the
\* marker is committed no run changes feeds, articles or the marker.
C15_RerunConverges ==
    /\ [](ImportDone =>
            /\ \A f1, f2 \in feeds : f1.url = f2.url => f1 = f2
            /\ \A r1, r2 \in articles : r1.id = r2.id => r1 = r2
            /\ feeds = ImportedFeeds(done.legacy)
            /\ \A r \in articles :
                  \E t \in 0..clock : r \in ImportedArticles(done.legacy, t)
            /\ \A e \in ImportedArticles(done.legacy, 0) :
                  \E r \in articles : r.id = e.id)
    /\ [][meta => (meta' /\ feeds' = feeds /\ articles' = articles)]_vars

\* an import has completed after the process was killed during an earlier run:
\* two rows were inserted by different runs
C15_Witness ==
    /\ ImportDone
    /\ restarts > 0
    /\ \E r1, r2 \in articles : r1.fetchedAt # r2.fetchedAt

\* C16: once the marker is set, every import call that starts leaves feeds,
\* articles, meta and the legacy source unchanged and queues nothing, whether
\* or not legacy data is present: its SELECT sees the marker, and it returns.
C16_InertAfterMarker ==
    [][(meta /\ restarts' = restarts /\ impSel \in {"idle", "1"} /\ impSel' # impSel) =>
          /\ impSel = "idle" => impSel' = "1"
          /\ feeds' = feeds /\ articles' = articles /\ meta' = meta
          /\ localStorage' = localStorage
          /\ queue' = queue]_vars

\* an import call has seen the marker while the legacy data is still there
C16_Witness ==
    /\ meta
    /\ impSel = "1"
    /\ HasData(localStorage)
    /\ feeds # {}

\* the import operations whose effect on the store is in progress or just over
ImportOps ==
    {queue[i] : i \in {j \in 1..Len(queue) :
                         queue[j].kind = "import" /\ queue[j].st = "running"}}
        \cup (IF done.kind = "import" THEN {done} ELSE {})

\* C17: the import inserts a legacy feed or article only if no store row has
\* its key, changes no field of a row the store already had, and gives each
\* article it inserts isRead and isStarred by the membership of its id in the
\* legacy read set and starred set.
C17_ImportInsertsIfAbsent ==
    \A op \in ImportOps :
       /\ op.pre.feeds \subseteq feeds
       /\ op.pre.articles \subseteq articles
       /\ \A f \in feeds \ op.pre.feeds :
             /\ \A g \in op.pre.feeds : g.url # f.url
             /\ \E k \in 1..Len(op.legacy.feeds) : op.legacy.feeds[k] = f
       /\ \A r \in articles \ op.pre.articles :
             /\ \A old \in op.pre.articles : old.id # r.id
             /\ \E k \in 1..Len(op.legacy.articles) : op.legacy.articles[k].id = r.id
             /\ r.isRead = (r.id \in op.legacy.read)
             /\ r.isStarred = (r.id \in op.legacy.starred)

\* an import has completed on a store that held a legacy feed under another
\* name: the feed has kept its name, and a read and a starred article are new
C17_Witness ==
    /\ ImportDone
    /\ \E f \in done.pre.feeds :
          /\ f \in feeds
          /\ \E k \in 1..Len(done.legacy.feeds) :
                done.legacy.feeds[k].url = f.url /\ done.legacy.feeds[k].name # f.name
    /\ \E r1, r2 \in articles \ done.pre.articles :
          /\ r1.isRead /\ ~r1.isStarred
          /\ r2.isStarred /\ ~r2.isRead

\* C24: addFeed with a url already in the store completes without error and
\* leaves the feed row (name, addedAt) and all articles as they were; in every
\* reachable state no two feed rows share a url.
C24_AddFeedIfAbsent ==
    /\ \A f1, f2 \in feeds : f1.url = f2.url => f1 = f2
    /\ (done.kind = "addFeed" /\ done.outcome = "ok"
            /\ \E f \in done.pre.feeds : f.url = done.url) =>
          /\ feeds = done.pre.feeds
          /\ articles = done.pre.articles

\* addFeed has completed for a url stored under another name, with articles
C24_Witness ==
    /\ done.kind = "addFeed" /\ done.outcome = "ok"
    /\ \E f \in feeds : f.url = done.url /\ f.name # done.name
    /\ \E r \in articles : r.feedUrl = done.url

\* C26: markAllRead(ids) sets isRead for exactly the stored articles whose id
\* is in ids and changes no other field and no other row; with an empty list
\* nothing is queued and the store stays as it is.
C26_MarkAllReadExact ==
    /\ (done.kind = "markAllRead" /\ done.outcome = "ok") =>
          /\ articles = {IF r.id \in done.ids THEN [r EXCEPT !.isRead = TRUE] ELSE r :
                            r \in done.pre.articles}
          /\ feeds = done.pre.feeds
    /\ \A i \in 1..Len(queue) : queue[i].kind = "markAllRead" => queue[i].ids # {}

\* markAllRead has completed with two ids, one of an unread article that is now
\* read, while another article is still unread
C26_Witness ==
    /\ done.kind = "markAllRead" /\ done.outcome = "ok"
    /\ Cardinality(done.ids) = 2
    /\ \E old \in done.pre.articles, r \in articles :
          old.id \in done.ids /\ ~old.isRead /\ r.id = old.id /\ r.isRead
    /\ \E r \in articles : ~r.isRead

\* C29: markRead, toggleRead and toggleStar change only their flag of the row
\* with the given id (markRead sets isRead, the toggles invert), create and
\* delete no row, and change nothing for an id that is not stored; markRead
\* applied twice is markRead applied once, a toggle applied twice restores the
\* row.
C29_FlagMutations ==
    /\ (done.kind = "markRead" /\ done.outcome = "ok") =>
          articles = {IF r.id = done.aid THEN [r EXCEPT !.isRead = TRUE] ELSE r :
                         r \in done.pre.articles}
    /\ (done.kind = "toggleRead" /\ done.outcome = "ok") =>
          articles = {IF r.id = done.aid THEN [r EXCEPT !.isRead = ~r.isRead] ELSE r :
                         r \in done.pre.articles}
    /\ (done.kind = "toggleStar" /\ done.outcome = "ok") =>
          articles = {IF r.id = done.aid THEN [r EXCEPT !.isStarred = ~r.isStarred] ELSE r :
                         r \in done.pre.articles}
    /\ done.kind \in {"markRead", "toggleRead", "toggleStar"} => feeds = done.pre.feeds
    /\ \A id \in FlagIds :
          /\ SetRead(SetRead(articles, {id}), {id}) = SetRead(articles, {id})
          /\ FlipRead(FlipRead(articles, id), id) = articles
          /\ FlipStar(FlipStar(articles, id), id) = articles

\* toggleStar has completed on a starred article, which is now not starred, and
\* is as it was otherwise
C29_Witness ==
    /\ done.kind = "toggleStar" /\ done.outcome = "ok"
    /\ \E old \in done.pre.articles :
          /\ old.id = done.aid /\ old.isStarred
          /\ [old EXCEPT !.isStarred = FALSE] \in articles

\* the unread articles of rows, of feed feedUrl if one is given
UnreadOf(rows, feedUrl) ==
    {r \in rows : ~r.isRead /\ (feedUrl # <<>> => r.feedUrl = feedUrl)}

\* the last listArticles call was made with the unread filter and the scope of
\* the markAllRead that settled last, after it had settled, with no write
\* submitted since
ListedAfterMarkAll ==
    /\ done.kind = "markAllRead" /\ done.outcome = "ok"
    /\ lastList.filter = "unread" /\ lastList.feedUrl = done.url
    /\ lastList.after = done.id /\ lastList.stamp = done.id

\* C27 as stated: if ids is the list listArticles returned with the unread
\* filter and no other write was submitted between that call and markAllRead
\* nor up to the following listArticles, that call, made with the unread filter
\* after markAllRead(ids) has completed, returns the empty sequence.
C27_UnreadEmptyAfterMarkAll ==
    (ListedAfterMarkAll /\ done.listed # "no") => lastList.rows = <<>>

\* C27: the same, when in addition no write submitted earlier was still queued
\* or running when the list was read.
C27_UnreadEmptyWhenQuiet ==
    (ListedAfterMarkAll /\ done.listed = "quiet") => lastList.rows = <<>>

\* markAllRead has completed with the ids of two unread articles, and the
\* unread list read after it is empty
C27_Witness ==
    /\ ListedAfterMarkAll /\ done.listed = "quiet"
    /\ Cardinality(UnreadOf(done.pre.articles, done.url)) >= 2
    /\ lastList.rows = <<>>

\* the row of rows with the id of the listed article a
StoredAs(rows, a) == CHOOSE r \in rows : r.id = a.id

\* L is what listArticles has to return on rows: the articles that satisfy the
\* filter, each once and with its stored fields, by publishedTs descending and
\* among equal publishedTs by fetchedAt descending
ListedRight(L, rows) ==
    LET want == {r \in rows :
                   /\ L.feedUrl # <<>> => r.feedUrl = L.feedUrl
                   /\ L.filter = "unread" => ~r.isRead
                   /\ L.filter = "starred" => r.isStarred}
    IN  /\ {L.rows[k].id : k \in 1..Len(L.rows)} = {r.id : r \in want}
        /\ Len(L.rows) = Cardinality(want)
        /\ \A k \in 1..Len(L.rows) :
              LET a == L.rows[k]
                  r == StoredAs(want, a)
              IN  /\ a.feedUrl = r.feedUrl /\ a.feedName = r.feedName
                  /\ a.title = r.title /\ a.link = r.link
                  /\ a.published = r.published /\ a.content = r.content
                  /\ a.author = r.author
                  /\ a.is_read = r.isRead /\ a.is_starred = r.isStarred
        /\ \A j, k \in 1..Len(L.rows) :
              j < k => ~Newer(StoredAs(want, L.rows[k]), StoredAs(want, L.rows[j]))

\* C28: listArticles returns exactly the stored articles that satisfy the
\* requested filter (none: all; by feed: feedUrl equal; unread: isRead false;
\* starred: isStarred true), ordered by publishedTs descending, ties by
\* fetchedAt descending.
C28_ListFilteredOrdered ==
    [][lastList' # lastList => ListedRight(lastList', articles)]_vars

\* the unread articles of one feed were listed, more than one, of different
\* publishedTs, while the store holds a read article of that feed
C28_Witness ==
    /\ lastList.filter = "unread" /\ lastList.feedUrl = UrlA
    /\ Len(lastList.rows) >= 2
    /\ lastList.rows[1].published # lastList.rows[2].published
    /\ \E r \in articles : r.feedUrl = UrlA /\ r.isRead

\* C22: when reloadArticles reads overlap, the result of a read is written to
\* the presentation list only if no later reload was initiated before that read
\* completed -- an older result is discarded -- and once all initiated reloads
\* have completed, the list holds the result of the most recently initiated
\* read.
C22_LatestReloadWins ==
    /\ \A j \in 1..Len(reloads) :
          reloads[j].st = "done" => (reloads[j].applied <=> reloads[j].later = 0)
    /\ (reloads # <<>> /\ \A j \in 1..Len(reloads) : reloads[j].st = "done") =>
          articleList = reloads[Len(reloads)].rows

\* two reloads overlapped, their reads returned different lists, the later one
\* returned first and the result of the older one was discarded
C22_Witness ==
    /\ Len(reloads) >= 2
    /\ \A j \in 1..Len(reloads) : reloads[j].st = "done"
    /\ reloads[1].rows # reloads[2].rows
    /\ ~reloads[1].applied /\ reloads[2].applied
    /\ articleList = reloads[2].rows

\* C21: when at least one fetch failed during a refresh, the refresh ends with
\* a 'some feeds failed' indication set in presentation state, while the
\* articles of the feeds that succeeded are displayed.
C21_RefreshFailureIndicated ==
    (refresh.pc = "done"
        /\ \E i \in 1..Len(refresh.fetch) : refresh.fetch[i].status = "rejected") =>
       /\ error # ""
       /\ articleList \in ListArticles(articles, <<>>, "all")

\* C30: every fetch eventually settles -- a fetch whose response has not come in
\* completely within the fixed timeout fails with a timeout error -- so the
\* all-settle join of every refresh eventually completes.
C30_RefreshJoinCompletes ==
    (refresh.pc = "fetching") ~> (refresh.pc # "fetching")

\* C23: a subscribe request for a url that is already a feed in the store is
\* rejected as already subscribed before any fetch for that url is started, and
\* issues no store write, at any moment it is made, including while an earlier
\* subscribe for the same url is still in progress.
C23_DuplicateSubscribeRejected ==
    \A j \in 1..Len(subs) :
        subs[j].inStore => subs[j].pc = "rejected" /\ subs[j].op = 0

\* the import call made at startup has completed: it has returned on the
\* marker, or the write it queued has settled
StartupImportOver == boot.pc \in {"imported", "failed", "articles", "ready"}

\* C25: no other store mutation (addFeed, removeFeed, upsertArticles, markRead,
\* toggleRead, toggleStar, markAllRead) is submitted before the
\* importFromLocalStorageIfNeeded call made at startup has completed.
C25_ImportBeforeMutations ==
    /\ (\E k \in 1..Len(queue) : queue[k].kind \notin {"import", "importMarker"}) =>
          StartupImportOver
    /\ (subs # <<>> \/ refresh.pc # "idle") => StartupImportOver

\* the import of the legacy data was the first write of this start, it has
\* completed, and a mutation submitted after it is in the queue
C25_Witness ==
    /\ Len(promise) >= 2
    /\ promise[1] = "fulfilled"
    /\ meta /\ feeds # {}
    /\ boot.pc = "ready"
    /\ \E k \in 1..Len(queue) : queue[k].kind \in {"addFeed", "upsertArticles"}

\* the elements below e
RECURSIVE Under(_)
Under(e) == UNION {{e.kids[k]} \cup Under(e.kids[k]) : k \in 1..Len(e.kids)}

\* the elements with the tag at e and below, in document order
RECURSIVE Tagged(_, _)
RECURSIVE TaggedIn(_, _)
Tagged(e, tag) == (IF e.tag = tag THEN <<e>> ELSE <<>>) \o TaggedIn(e.kids, tag)
TaggedIn(ks, tag) ==
    IF ks = <<>> THEN <<>> ELSE Tagged(Head(ks), tag) \o TaggedIn(Tail(ks), tag)

\* the document contains a feed element, as root or at any depth
HasFeed(d) == Tagged(d, "feed") # <<>>

\* C32: for every RSS item with no title element (or an empty one) parse yields
\* the title "Untitled", and for every Atom entry with no published value but an
\* updated value parse yields published equal to the updated value.
C32_TitleAndPublishedDefaults ==
    parsed # <<>> =>
        LET out == parsed[1]
            its == Tagged(doc, "item")
            ens == Tagged(doc, "entry")
        IN  /\ ~HasFeed(doc) =>
                 \A k \in 1..Len(its) :
                    (\A x \in Under(its[k]) : x.tag = "title" => x.text = <<>>) =>
                        /\ k \in DOMAIN out.items
                        /\ out.items[k].title = <<"Untitled">>
            /\ HasFeed(doc) =>
                 \A k \in 1..Len(ens) :
                    \A u \in {"d1", "d2"} :
                       (/\ \A x \in Under(ens[k]) : x.tag = "published" => x.text = ""
                        /\ {x.text : x \in {y \in Under(ens[k]) : y.tag = "updated"}} = {u}) =>
                           /\ k \in DOMAIN out.items
                           /\ out.items[k].published = u

\* an RSS document was parsed in which one item has an empty title element and
\* another has a title
C32_Witness ==
    /\ parsed # <<>>
    /\ ~HasFeed(doc)
    /\ \E j, k \in 1..Len(Tagged(doc, "item")) :
          /\ \E x \in Under(Tagged(doc, "item")[j]) : x.tag = "title" /\ x.text = <<>>
          /\ parsed[1].items[j].title = <<"Untitled">>
          /\ parsed[1].items[k].title = <<"t1">>

\* C33 as stated: for every Atom entry, parse sets link to the href of the entry's link
\* with rel="alternate" when one exists with a non-empty href, otherwise to the
\* href of the entry's first link of any kind, otherwise to the empty string; an
\* Atom document with n entries yields n items.
C33_AtomLink ==
    (parsed # <<>> /\ HasFeed(doc)) =>
        LET out == parsed[1]
            ens == Tagged(doc, "entry")
        IN  /\ Len(out.items) = Len(ens)
            /\ \A k \in 1..Len(ens) :
                  LET links == TaggedIn(ens[k].kids, "link")
                      alts == SelectSeq(links,
                                  LAMBDA l : l.rel = "alternate" /\ l.href # <<>>)
                  IN  out.items[k].link =
                         IF alts # <<>> THEN alts[1].href
                         ELSE IF links # <<>> THEN links[1].href
                         ELSE <<>>

\* C34: parse takes the Atom branch exactly when the document contains a "feed"
\* element (as root or at any depth) and the RSS branch in every other case; it
\* returns a feedTitle and an item list for every input, and elements of the
\* family that was not selected contribute no items: with a feed element there
\* is one item per entry element, without one there is one item per item
\* element.
C34_BranchByFeedElement ==
    parsed # <<>> =>
        LET out == parsed[1]
        IN  /\ DOMAIN out = {"feedTitle", "items"}
            /\ out.feedTitle # <<>>
            /\ Len(out.items) = IF HasFeed(doc) THEN Len(Tagged(doc, "entry"))
                                ELSE Len(Tagged(doc, "item"))

\* a document was parsed that has its feed element below the root, and an
\* entry and an item element
C34_Witness ==
    /\ parsed # <<>>
    /\ doc.tag # "feed" /\ HasFeed(doc)
    /\ Tagged(doc, "entry") # <<>> /\ Tagged(doc, "item") # <<>>
    /\ Len(parsed[1].items) = Len(Tagged(doc, "entry"))


\* the response resp, whose status is not in 200-299, makes the fetch for feed
\* i of the refresh fail with the status and nothing else
RefreshFetchFails(i, resp) ==
    (resp.status \notin 200..299 /\ FetchRespond(i, resp)) =>
        /\ refresh'.fetch[i] = [status |-> "rejected", feedTitle |-> "",
                                items |-> <<>>, error |-> <<"HTTP", resp.status>>]
        /\ UNCHANGED <<store, queue, promise, calls>>

\* the same response makes the subscribe handler j end as failed without a
\* call of the store
SubscribeFails(j, resp) ==
    (resp.status \notin 200..299 /\ SubRespond(j, resp)) =>
        /\ subs'[j].pc = "failed"
        /\ subs'[j].op = 0
        /\ UNCHANGED <<store, queue, promise, calls>>

\* C31: a fetch whose response status is not in 200-299 fails with an error
\* that carries the status; the body of the response is not parsed (the
\* failure holds nothing of it), and nothing of the response is written: in a
\* refresh the store is not called at the failure and no upsert is made for
\* that feed afterwards, in a subscribe the handler ends as failed without a
\* call of the store.
C31_NonOkStatusFails ==
    /\ [][\A resp \in Responses :
            /\ \A i \in DOMAIN refresh.fetch : RefreshFetchFails(i, resp)
            /\ \A j \in DOMAIN subs : SubscribeFails(j, resp)]_vars
    /\ [](\A i \in DOMAIN refresh.fetch :
            (refresh.fetch[i].error # <<>> /\ refresh.fetch[i].error[1] = "HTTP") =>
                /\ i \notin refresh.upserted
                /\ \A k \in DOMAIN queue : queue[k].url # refresh.list[i].url)

\* a refresh has ended in which one feed was answered with status 404 and
\* the other feed was upserted, and a subscribe has failed on a response
C31_Witness ==
    /\ refresh.pc = "done"
    /\ \E i \in DOMAIN refresh.fetch : refresh.fetch[i].error = <<"HTTP", 404>>
    /\ refresh.upserted # {}
    /\ articles # refresh.pre

\* a subscribe has failed on a response and nothing was written
C31_WitnessSubscribe ==
    /\ subs # <<>>
    /\ subs[1].pc = "failed" /\ subs[1].op = 0
    /\ feeds = {} /\ articles = {}


\* C35 as stated: whatever calls of initDb were made, overlapping or not,
\* Database.load was called at most once and every call that has returned,
\* returned the same handle.
C35_OpenedOnce ==
    /\ loads <= 1
    /\ \A j, k \in DOMAIN inits :
          (inits[j].pc = "done" /\ inits[k].pc = "done") => inits[j].ret = inits[k].ret

\* calls that do not overlap: the second call was made after the first had
\* returned, the database was opened once and both returned its handle
C35_SequentialCalls ==
    /\ Len(inits) = 2 /\ loads = 1
    /\ inits[1].pc = "done" /\ inits[2].pc = "done"
    /\ inits[1].ret = inits[2].ret


\* every legacy feed and every legacy article has its row in the store
LegacyInStore(legacy, feedRows, artRows) ==
    /\ \A k \in DOMAIN legacy.feeds : \E f \in feedRows : f.url = legacy.feeds[k].url
    /\ \A k \in DOMAIN legacy.articles : \E r \in artRows : r.id = legacy.articles[k].id

\* C36: the marker is written only when every legacy feed and article insert
\* has been executed (each has its row); the legacy source is changed only
\* when the marker is already written; and in every state, whatever
\* statement failed and wherever the process was killed, the marker is set or
\* the legacy data is all there (it is empty only if nothing was imported).
C36_MarkerThenClear ==
    /\ [][(~meta /\ meta') => LegacyInStore(localStorage, feeds', articles')]_vars
    /\ [][localStorage' # localStorage => meta]_vars
    /\ [](~meta => \/ localStorage = LegacyData
                   \/ localStorage = NoLegacy /\ feeds = {} /\ articles = {})

\* an import that was interrupted after its first inserts has been run again
\* to its end: rows are in the store, the marker is set, the legacy data gone
C36_Witness ==
    /\ restarts > 0
    /\ meta /\ localStorage = NoLegacy
    /\ LegacyInStore(LegacyData, feeds, articles)
    /\ done.kind = "import" /\ done.outcome = "ok"

\* the process was killed between the marker and the removal of the legacy
\* keys: the marker is set and the legacy data is still there
C36_WitnessKilledBeforeClear ==
    /\ restarts > 0 /\ queue = <<>>
    /\ meta /\ localStorage = LegacyData


\* C37 as stated: every refresh that has started (refreshing is set)
\* eventually ends with refreshing cleared, whether its fetches and upserts
\* succeed or fail.
C37_RefreshFinishes == refreshing ~> ~refreshing

\* a refresh all of whose fetches and upserts succeeded has ended
C37_FinishedWhenAllSucceed ==
    /\ refresh.pc = "done" /\ ~refreshing
    /\ refresh.upserted = DOMAIN refresh.list


\* C38 as stated: every article a listArticles call returns, whose id was
\* marked read with no toggleRead of the id and no removeFeed of its feed
\* since, is reported read -- whatever refreshes, prunes and star changes
\* came in between.
C38_ReadMarkSticks ==
    [][listArticles(<<>>, "all") =>
          \A k \in DOMAIN lastList'.rows :
              MarkOf(lastList'.rows[k]) \in marked => lastList'.rows[k].is_read]_vars

\* the same for the lists read while no write is queued or running
C38_ReadMarkSticksWhenQuiet ==
    [][(queue = <<>> /\ listArticles(<<>>, "all")) =>
          \A k \in DOMAIN lastList'.rows :
              MarkOf(lastList'.rows[k]) \in marked => lastList'.rows[k].is_read]_vars

\* a marked article was upserted again while it was in the store, starred
\* and all: the list read afterwards reports it read
C38_KeptAcrossUpsert ==
    /\ done.kind = "upsertArticles" /\ done.outcome = "ok"
    /\ lastList.quiet /\ lastList.after = done.id
    /\ \E k \in DOMAIN lastList.rows :
          /\ lastList.rows[k].id = ArticleId(UrlA, E4)
          /\ MarkOf(lastList.rows[k]) \in marked
          /\ lastList.rows[k].is_read


\* nothing is in flight: no write is queued or running, every reload and
\* every flag handler has returned
AllReturned ==
    /\ queue = <<>>
    /\ \A j \in DOMAIN reloads : reloads[j].st = "done"
    /\ \A c \in DOMAIN clicks : clicks[c].pc # "await"

\* every article of the presentation list has the flags of its stored row
ListHasStoredFlags ==
    \A k \in DOMAIN articleList :
        \E r \in articles :
            /\ r.id = articleList[k].id
            /\ r.isRead = articleList[k].is_read
            /\ r.isStarred = articleList[k].is_starred

\* C39 as stated: however flag mutations made from the list and calls of
\* reloadArticles overlapped, once all of them have returned every article
\* of the presentation list has the is_read and is_starred of the store.
C39_ListMatchesStore == AllReturned => ListHasStoredFlags

\* a flag handler and a reload have both returned, the flag is changed in
\* the store, and the list has the stored flags
C39_InStep ==
    /\ AllReturned
    /\ Len(clicks) = 1 /\ clicks[1].pc = "done"
    /\ Len(reloads) = 1 /\ reloads[1].applied
    /\ ListHasStoredFlags
    /\ \E r \in articles : r \notin UsedArticles


\* the subscribe handler j is the only one that was called with its url
OnlyRequestFor(j) == \A k \in DOMAIN subs : k # j => subs[k].url # subs[j].url

\* the store has no feed row and no article of the feed url
NothingStoredFor(url) ==
    /\ \A f \in feeds : f.url # url
    /\ \A r \in articles : r.feedUrl # url

\* C40 as stated: when a subscribe request has ended by reporting failure,
\* because its fetch failed or because a store write failed, the store has
\* no feed row and no article of its url that was not there before the
\* request (the store held none: the requests start on an empty store, and
\* the request is the only one for its url).
C40_FailedSubscribeLeavesNothing ==
    \A j \in DOMAIN subs :
        (subs[j].pc = "failed" /\ ~subs[j].inStore /\ OnlyRequestFor(j)) =>
            NothingStoredFor(subs[j].url)

\* a subscribe request whose fetch failed has reported failure, and nothing
\* of its url is in the store
C40_NothingAfterFailedFetch ==
    /\ Len(subs) = 1
    /\ subs[1].pc = "failed" /\ subs[1].op = 0
    /\ NothingStoredFor(subs[1].url)

====
